---- MODULE Spec2Model ----
(***************************************************************************)
(* pymutantic: a typed pydantic model kept in a pycrdt Doc.                *)
(*                                                                         *)
(*   _mutant.py   to_crdt, ArrayProxy, wrap (ModelProxy),                  *)
(*                MutateInTransaction, MutantModel                         *)
(*   _migrate.py  ModelVersionRegistry.migrate                             *)
(*                                                                         *)
(* Python values are tagged records:                                       *)
(*   [t |-> "str", s], [t |-> "int", n], [t |-> "float", n],               *)
(*   [t |-> "bool", b], [t |-> "NoneType"]            scalars              *)
(*   [t |-> "dict", d], [t |-> "list", l]             plain containers     *)
(*   [t |-> "BaseModel", cls, d]                      pydantic instances   *)
(*   [t |-> "ModelProxy", root, d]                    wrap() of a dict     *)
(*   [t |-> "ArrayProxy", root, l]                    wrap() of a list     *)
(*   [t |-> "Map", d], [t |-> "Array", l]             preliminary pycrdt   *)
(*                                                    types (to_crdt)      *)
(* A Doc is the struct store of the CRDT: the items every client wrote,    *)
(* each with its id <<client, clock>>, its parent type, its map key or its *)
(* neighbours in the array, and its tombstone.                             *)
(***************************************************************************)
EXTENDS Integers, Sequences, FiniteSets, TLC

VARIABLES
    docs,      \* wrapper -> its Doc (MutantModel._doc), NoDoc before construction
    bound,     \* wrapper -> its bound type (MutantModel.PydanticModel)
    txn,       \* wrapper -> TRUE while its Document transaction is open
    pc,        \* wrapper -> "body" inside a with mutate() block, else "out"
    state,     \* wrapper -> the proxy tree mutate() yielded (kept after exit)
    exc,       \* the exception the last call raised to the caller, "" if none
    ctor,      \* the last MutantModel(...) call: its arguments, its _doc at the end
    registry,  \* ModelVersionRegistry.model_versions
    calls,     \* the up/down hooks the running / last migrate has invoked
    mig,       \* the frame of ModelVersionRegistry.migrate
    nops       \* calls made on proxies so far (bounded)

vars == <<docs, bound, txn, pc, state, exc, ctor, registry, calls, mig, nops>>

-----------------------------------------------------------------------------
(* Values *)

PyNone == [t |-> "NoneType"]
PyStr(s) == [t |-> "str", s |-> s]
PyInt(n) == [t |-> "int", n |-> n]
PyFloat(n) == [t |-> "float", n |-> n]
PyBool(b) == [t |-> "bool", b |-> b]
PyDict(d) == [t |-> "dict", d |-> d]
PyList(l) == [t |-> "list", l |-> l]
BaseModel(cls, d) == [t |-> "BaseModel", cls |-> cls, d |-> d]

IsMapping(o) == o.t \in {"dict", "ModelProxy"}
IsSequence(o) == o.t \in {"list", "ArrayProxy"}

\* Field names in declaration order: the order dicts are iterated in.
KeyOrder ==
    <<"schema_version", "field", "some_field", "some_new_field",
      "another_new_field", "yet_another_field",
      "collection", "title", "author", "name", "posts">>

KeysOf(d) == SelectSeq(KeyOrder, LAMBDA k : k \in DOMAIN d)

\* The empty mapping.
NoFields == [k \in {} |-> PyNone]

\* f with key k bound to v (added if absent).
Put(f, k, v) == [x \in DOMAIN f \cup {k} |-> IF x = k THEN v ELSE f[x]]

\* f without key k.
Drop(f, k) == [x \in DOMAIN f \ {k} |-> f[x]]

\* Sequence s with x inserted so that it becomes element i (1-based).
InsertAt(s, i, x) == SubSeq(s, 1, i - 1) \o <<x>> \o SubSeq(s, i, Len(s))

\* Sequence s without element i (1-based).
RemoveAt(s, i) == SubSeq(s, 1, i - 1) \o SubSeq(s, i + 1, Len(s))

-----------------------------------------------------------------------------
(* to_crdt *)

\* (mutant) sequences are converted to empty arrays
RECURSIVE to_crdt_no_elements(_)
to_crdt_no_elements(o) ==
    CASE o.t \in {"BaseModel", "dict", "ModelProxy"} ->
           [t |-> "Map", d |-> [k \in DOMAIN o.d |-> to_crdt_no_elements(o.d[k])]]
      [] o.t \in {"list", "ArrayProxy"} -> [t |-> "Array", l |-> <<>>]
      [] OTHER -> o

RECURSIVE to_crdt(_)
to_crdt(o) ==
    CASE o.t = "BaseModel" ->
           \* to_crdt(o.model_dump())
           [t |-> "Map", d |-> [k \in DOMAIN o.d |-> to_crdt(o.d[k])]]
      [] o.t \in {"dict", "ModelProxy"} ->
           [t |-> "Map", d |-> [k \in DOMAIN o.d |-> to_crdt(o.d[k])]]
      [] o.t \in {"list", "ArrayProxy"} ->
           [t |-> "Array", l |-> [i \in DOMAIN o.l |-> to_crdt(o.l[i])]]
      [] OTHER -> o

\* What a value holds, containers reduced to plain dicts and lists:
\* model_dump() of a model, and what == compares on dicts and lists.
RECURSIVE Plain(_)
Plain(o) ==
    CASE o.t \in {"BaseModel", "dict", "ModelProxy", "Map"} ->
           PyDict([k \in DOMAIN o.d |-> Plain(o.d[k])])
      [] o.t \in {"list", "ArrayProxy", "Array"} ->
           PyList([i \in DOMAIN o.l |-> Plain(o.l[i])])
      [] OTHER -> o

-----------------------------------------------------------------------------
(* The Document: pycrdt Doc, Map, Array *)

NoId == <<0, 0>>
\* The root type of the Doc, doc.get(ROOT_KEY, type=Map).
ROOT_KEY == <<0, 1>>

NoDoc == [client |-> 0, items |-> <<>>]
Doc(client) == [client |-> client, items |-> <<>>]

\* The type marker an item holds for a nested Map / Array.
TypeOf(c) == IF c.t \in {"Map", "Array"} THEN [t |-> c.t] ELSE c

Ids(doc) == {doc.items[i].id : i \in DOMAIN doc.items}

IndexOfId(items, id) == CHOOSE i \in DOMAIN items : items[i].id = id

\* Positions (in the store) of the items of one list of a type: the chain of a
\* map key (sub = key) or the elements of an array (sub = ""), in list order.
RECURSIVE SibsFrom(_, _, _, _)
SibsFrom(items, parent, sub, i) ==
    IF i > Len(items) THEN <<>>
    ELSE IF items[i].parent = parent /\ items[i].sub = sub
         THEN <<i>> \o SibsFrom(items, parent, sub, i + 1)
         ELSE SibsFrom(items, parent, sub, i + 1)

Sibs(items, parent, sub) == SibsFrom(items, parent, sub, 1)

\* Of those, the ones that are not deleted.
Live(items, parent, sub) ==
    SelectSeq(Sibs(items, parent, sub), LAMBDA i : ~items[i].del)

NextClock(doc) ==
    Cardinality({i \in DOMAIN doc.items : doc.items[i].id[1] = doc.client})

MarkDeleted(items, i) == [items EXCEPT ![i].del = TRUE]

\* Where in the store a new item goes: right after its left neighbour, else
\* right before the first item of its list, else at the end.
PlaceAfter(items, sibs, p, item) ==
    IF p > 0 THEN InsertAt(items, sibs[p] + 1, item)
    ELSE IF Len(sibs) > 0 THEN InsertAt(items, sibs[1], item)
    ELSE Append(items, item)

RECURSIVE MapSet(_, _, _, _), ArrayInsert(_, _, _, _), Fill(_, _, _, _)

\* Map.__setitem__: a new item at the end of the key's chain; the item it
\* follows is deleted. A preliminary Map / Array value is integrated with it.
MapSet(doc, node, key, c) ==
    LET sibs == Sibs(doc.items, node, key)
        n == Len(sibs)
        id == <<doc.client, NextClock(doc)>>
        item == [id |-> id, parent |-> node, sub |-> key,
                 origin |-> IF n = 0 THEN NoId ELSE doc.items[sibs[n]].id,
                 rorigin |-> NoId, c |-> TypeOf(c), del |-> FALSE]
        dead == IF n = 0 THEN doc.items ELSE MarkDeleted(doc.items, sibs[n])
    IN Fill([doc EXCEPT !.items = PlaceAfter(dead, sibs, n, item)], id, c, 1)

\* Array insert at index (0-based, among the elements that are not deleted).
ArrayInsert(doc, node, index, c) ==
    LET sibs == Sibs(doc.items, node, "")
        live == Live(doc.items, node, "")
        \* position in sibs of the element the new one follows
        p == IF index = 0 THEN 0
             ELSE CHOOSE q \in DOMAIN sibs : sibs[q] = live[index]
        id == <<doc.client, NextClock(doc)>>
        item == [id |-> id, parent |-> node, sub |-> "",
                 origin |-> IF p = 0 THEN NoId ELSE doc.items[sibs[p]].id,
                 rorigin |-> IF p = Len(sibs) THEN NoId
                             ELSE doc.items[sibs[p + 1]].id,
                 c |-> TypeOf(c), del |-> FALSE]
    IN Fill([doc EXCEPT !.items = PlaceAfter(doc.items, sibs, p, item)], id, c, 1)

\* The children of a preliminary Map / Array, integrated one by one from the
\* i-th on (Map._init, Array._init).
Fill(doc, id, c, i) ==
    CASE c.t = "Map" ->
           IF i > Len(KeysOf(c.d)) THEN doc
           ELSE Fill(MapSet(doc, id, KeysOf(c.d)[i], c.d[KeysOf(c.d)[i]]), id, c, i + 1)
      [] c.t = "Array" ->
           IF i > Len(c.l) THEN doc
           ELSE Fill(ArrayInsert(doc, id, i - 1, c.l[i]), id, c, i + 1)
      [] OTHER -> doc

\* Array remove_range(index, 1).
ArrayDelete(doc, node, index) ==
    [doc EXCEPT !.items = MarkDeleted(doc.items, Live(doc.items, node, "")[index + 1])]

ArrayLen(doc, node) == Len(Live(doc.items, node, ""))

\* Map.to_py() / Array.to_py().
RECURSIVE to_py(_, _, _)
to_py(doc, node, kind) ==
    LET val(i) == IF doc.items[i].c.t \in {"Map", "Array"}
                  THEN to_py(doc, doc.items[i].id, doc.items[i].c.t)
                  ELSE doc.items[i].c
    IN IF kind = "Map"
       THEN LET last(k) == LET s == Sibs(doc.items, node, k) IN s[Len(s)]
                keys == {doc.items[i].sub : i \in {j \in DOMAIN doc.items :
                             doc.items[j].parent = node /\ doc.items[j].sub # ""}}
                live == {k \in keys : ~doc.items[last(k)].del}
            IN PyDict([k \in live |-> val(last(k))])
       ELSE LET live == Live(doc.items, node, "")
            IN PyList([i \in DOMAIN live |-> val(live[i])])

\* (mutant) the blob carries the items but not the deletions
get_update_no_deletions(doc) ==
    [structs |-> {[doc.items[i] EXCEPT !.del = FALSE] : i \in DOMAIN doc.items},
     ds |-> {}]

\* What doc.get_update() encodes: every item of the store and the delete set.
get_update(doc) ==
    [structs |-> {[doc.items[i] EXCEPT !.del = FALSE] : i \in DOMAIN doc.items},
     ds |-> {doc.items[i].id : i \in {j \in DOMAIN doc.items : doc.items[j].del}}]

\* Integration of an item written elsewhere: the item goes after its origin,
\* behind the concurrent items that precede it (the walk starts at position o of
\* the list S and ends at the item's right origin, position r).
RECURSIVE Scan(_, _, _, _, _, _, _)
Scan(S, x, o, r, left, conflicting, before) ==
    IF o >= r \/ o > Len(S) THEN left
    ELSE LET pos(id) == CHOOSE q \in DOMAIN S : S[q].id = id
             b2 == before \cup {o}
             c2 == conflicting \cup {o}
         IN IF S[o].origin = x.origin
            THEN IF S[o].id[1] < x.id[1]
                 THEN Scan(S, x, o + 1, r, o, {}, b2)
                 ELSE IF S[o].rorigin = x.rorigin THEN left
                 ELSE Scan(S, x, o + 1, r, left, c2, b2)
            ELSE IF S[o].origin # NoId /\ pos(S[o].origin) \in b2
                 THEN IF pos(S[o].origin) \notin c2
                      THEN Scan(S, x, o + 1, r, o, {}, b2)
                      ELSE Scan(S, x, o + 1, r, left, c2, b2)
                 ELSE left

Integrate(doc, x) ==
    LET sibs == Sibs(doc.items, x.parent, x.sub)
        S == [q \in DOMAIN sibs |-> doc.items[sibs[q]]]
        pos(id) == CHOOSE q \in DOMAIN S : S[q].id = id
        l == IF x.origin = NoId THEN 0 ELSE pos(x.origin)
        r == IF x.rorigin = NoId THEN Len(S) + 1 ELSE pos(x.rorigin)
        left == Scan(S, x, l + 1, r, l, {}, {})
        rightmost == left = Len(S)
        \* a map key holds its rightmost item: the others are deleted
        dead == IF x.sub # "" /\ rightmost /\ left > 0
                THEN MarkDeleted(doc.items, sibs[left]) ELSE doc.items
        item == [x EXCEPT !.del = (x.sub # "" /\ ~rightmost)]
    IN [doc EXCEPT !.items = PlaceAfter(dead, sibs, left, item)]

\* The items an item needs in the store before it can be integrated.
Needs(x) ==
    ({x.parent, x.origin, x.rorigin} \ {NoId, ROOT_KEY})
        \cup (IF x.id[2] > 0 THEN {<<x.id[1], x.id[2] - 1>>} ELSE {})

RECURSIVE IntegrateAll(_, _)
IntegrateAll(doc, pending) ==
    LET ready == {x \in pending : Needs(x) \subseteq Ids(doc)}
    IN IF ready = {} THEN doc
       ELSE LET x == CHOOSE y \in ready : TRUE
            IN IntegrateAll(Integrate(doc, x), pending \ {x})

\* (mutant) the blob replaces what the store holds
apply_update_replacing(doc, value) ==
    LET d1 == IntegrateAll([doc EXCEPT !.items = <<>>], value.structs)
    IN [d1 EXCEPT !.items = [i \in DOMAIN d1.items |->
            [d1.items[i] EXCEPT !.del = @ \/ d1.items[i].id \in value.ds]]]

\* doc.apply_update(value): the items the store lacks are integrated, then the
\* delete set is applied.
apply_update(doc, value) ==
    LET d1 == IntegrateAll(doc, {x \in value.structs : x.id \notin Ids(doc)})
    IN [d1 EXCEPT !.items = [i \in DOMAIN d1.items |->
            [d1.items[i] EXCEPT !.del = @ \/ d1.items[i].id \in value.ds]]]

-----------------------------------------------------------------------------
(* The bound types: the pydantic models of the test suites *)

Field(kind, of, required, default) ==
    [kind |-> kind, of |-> of, required |-> required, default |-> default]
Required(kind, of) == Field(kind, of, TRUE, PyNone)

\* test_mutant.py: Author, Post, BlogPageConfig (the fields the model keeps);
\* test_migrate.py: ModelV1 .. ModelV5.
\* CollectionOnly is BlogPageConfig without the field that has a default.
ModelFields(cls) ==
    CASE cls = "Author" -> [name |-> Required("str", "")]
      [] cls = "Post" ->
           [title |-> Required("str", ""), author |-> Required("BaseModel", "Author")]
      [] cls = "BlogPageConfig" ->
           [collection |-> Required("str", ""),
            posts |-> Field("list", "Post", FALSE, PyList(<<>>))]
      [] cls = "CollectionOnly" -> [collection |-> Required("str", "")]
      [] cls = "ModelV1" ->
           [schema_version |-> Field("int", "", FALSE, PyInt(1)),
            field |-> Required("str", ""), some_field |-> Required("str", "")]
      [] cls = "ModelV2" ->
           [schema_version |-> Field("int", "", FALSE, PyInt(2)),
            some_field |-> Required("str", "")]
      [] cls = "ModelV3" ->
           [schema_version |-> Field("int", "", FALSE, PyInt(3)),
            some_field |-> Required("str", ""),
            some_new_field |-> Required("float", "")]
      [] cls = "ModelV4" ->
           [schema_version |-> Field("int", "", FALSE, PyInt(4)),
            some_field |-> Required("str", ""),
            some_new_field |-> Required("float", ""),
            another_new_field |-> Required("bool", "")]
      [] cls = "ModelV5" ->
           [schema_version |-> Field("int", "", FALSE, PyInt(5)),
            some_field |-> Required("str", ""),
            some_new_field |-> Required("float", ""),
            another_new_field |-> Required("bool", ""),
            yet_another_field |-> Required("int", "")]

\* PydanticModel.model_validate(v) succeeds: every required field is there and
\* every field that is there has its type; other keys are ignored.
RECURSIVE Validates(_, _)
Validates(cls, v) ==
    LET F == ModelFields(cls)
        ok(f, x) ==
            CASE f.kind = "BaseModel" -> Validates(f.of, x)
              [] f.kind = "list" ->
                   x.t = "list" /\ \A i \in DOMAIN x.l : Validates(f.of, x.l[i])
              [] f.kind = "float" -> x.t \in {"float", "int"}
              [] OTHER -> x.t = f.kind
    IN /\ v.t = "dict"
       /\ \A k \in DOMAIN F :
            IF k \in DOMAIN v.d THEN ok(F[k], v.d[k]) ELSE ~F[k].required

\* The instance model_validate(v) returns: the declared fields, defaults filled.
RECURSIVE model_validate(_, _)
model_validate(cls, v) ==
    LET F == ModelFields(cls)
        conv(f, x) ==
            CASE f.kind = "BaseModel" -> model_validate(f.of, x)
              [] f.kind = "list" ->
                   PyList([i \in DOMAIN x.l |-> model_validate(f.of, x.l[i])])
              [] OTHER -> x
    IN BaseModel(cls, [k \in DOMAIN F |->
           IF k \in DOMAIN v.d THEN conv(F[k], v.d[k]) ELSE F[k].default])

-----------------------------------------------------------------------------
(* wrap, ModelProxy, ArrayProxy *)

\* Keys of an integrated Map that hold a value.
MapKeys(doc, node) ==
    {k \in {doc.items[i].sub : i \in {j \in DOMAIN doc.items :
                doc.items[j].parent = node /\ doc.items[j].sub # ""}} :
        LET s == Sibs(doc.items, node, k) IN ~doc.items[s[Len(s)]].del}

\* root[k] of an integrated Map: the item that holds the key's value.
MapItem(doc, node, k) ==
    LET s == Sibs(doc.items, node, k) IN doc.items[s[Len(s)]]

\* root[i] of an integrated Array.
ArrayItem(doc, node, i) == doc.items[Live(doc.items, node, "")[i + 1]]

\* What root[k] returns: the scalar, or the integrated Map / Array.
Integrated(item) ==
    IF item.c.t \in {"Map", "Array"}
    THEN [t |-> "Integrated", kind |-> item.c.t, root |-> item.id]
    ELSE item.c

\* wrap(root, o) raises no KeyError / IndexError: root[k] exists for every key
\* and index of the shadow value.
RECURSIVE WrapOk(_, _, _)
WrapOk(doc, root, o) ==
    CASE o.t = "dict" ->
           \A k \in DOMAIN o.d :
               /\ k \in MapKeys(doc, root)
               /\ WrapOk(doc, MapItem(doc, root, k).id, o.d[k])
      [] o.t = "list" ->
           \A i \in DOMAIN o.l :
               /\ i <= ArrayLen(doc, root)
               /\ WrapOk(doc, ArrayItem(doc, root, i - 1).id, o.l[i])
      [] OTHER -> TRUE

RECURSIVE wrap(_, _, _)
wrap(doc, root, o) ==
    CASE o.t = "dict" ->
           \* ModelProxy(root, **{k: wrap(root[k], v)}): the keys of root, the
           \* wrapped values over them
           [t |-> "ModelProxy", root |-> root,
            d |-> [k \in MapKeys(doc, root) \cup DOMAIN o.d |->
                     IF k \in DOMAIN o.d
                     THEN wrap(doc, MapItem(doc, root, k).id, o.d[k])
                     ELSE Integrated(MapItem(doc, root, k))]]
      [] o.t = "list" ->
           [t |-> "ArrayProxy", root |-> root,
            l |-> [i \in DOMAIN o.l |->
                     wrap(doc, ArrayItem(doc, root, i - 1).id, o.l[i])]]
      [] OTHER -> o

\* A place in the proxy tree: a sequence of attribute names [k |-> name] and
\* indices [i |-> n] (1-based).
RECURSIVE GetAt(_, _)
GetAt(o, p) ==
    IF p = <<>> THEN o
    ELSE IF "k" \in DOMAIN Head(p) THEN GetAt(o.d[Head(p).k], Tail(p))
    ELSE GetAt(o.l[Head(p).i], Tail(p))

RECURSIVE SetAt(_, _, _)
SetAt(o, p, v) ==
    IF p = <<>> THEN v
    ELSE IF "k" \in DOMAIN Head(p)
         THEN [o EXCEPT !.d[Head(p).k] = SetAt(@, Tail(p), v)]
         ELSE [o EXCEPT !.l[Head(p).i] = SetAt(@, Tail(p), v)]

\* The places of all containers of a tree.
RECURSIVE PathsOf(_)
PathsOf(o) ==
    CASE o.t \in {"ModelProxy", "dict", "BaseModel"} ->
           {<<>>} \cup UNION {{<<[k |-> k]>> \o p : p \in PathsOf(o.d[k])} : k \in DOMAIN o.d}
      [] o.t \in {"ArrayProxy", "list"} ->
           {<<>>} \cup UNION {{<<[i |-> i]>> \o p : p \in PathsOf(o.l[i])} : i \in DOMAIN o.l}
      [] OTHER -> {}

\* The outcome of a call on a proxy: the proxy, the Doc, the exception raised.
Done(self, doc) == [self |-> self, doc |-> doc, exc |-> ""]
Raised(self, doc, e) == [self |-> self, doc |-> doc, exc |-> e]

\* Python's index convention: a negative index counts from the end.
Norm(i, n) == IF i < 0 THEN i + n ELSE i

\* (mutant) the assignment reaches the shadow only
ModelProxy_setattr_shadow_only(self, doc, key, value) ==
    Done([self EXCEPT !.d = Put(@, key, value)], doc)

\* ModelProxy.__setattr__
ModelProxy_setattr(self, doc, key, value) ==
    Done([self EXCEPT !.d = Put(@, key, value)],
         MapSet(doc, self.root, key, to_crdt(value)))

\* Munch.__delattr__ (ModelProxy does not override it)
ModelProxy_delattr(self, doc, key) ==
    IF key \notin DOMAIN self.d THEN Raised(self, doc, "AttributeError")
    ELSE Done([self EXCEPT !.d = Drop(@, key)], doc)

\* ArrayProxy.append
ArrayProxy_append(self, doc, item) ==
    Done([self EXCEPT !.l = Append(@, item)],
         ArrayInsert(doc, self.root, ArrayLen(doc, self.root), to_crdt(item)))

\* ArrayProxy.__setitem__
ArrayProxy_setitem(self, doc, key, value) ==
    LET k == Norm(key, Len(self.l))
        kd == Norm(key, ArrayLen(doc, self.root))
        new == [self EXCEPT !.l[k + 1] = value]
    IN IF k \notin 0 .. Len(self.l) - 1 THEN Raised(self, doc, "IndexError")
       ELSE IF kd \notin 0 .. ArrayLen(doc, self.root) - 1
            THEN Raised(new, doc, "IndexError")
       ELSE Done(new, ArrayInsert(ArrayDelete(doc, self.root, kd),
                                  self.root, kd, to_crdt(value)))

RECURSIVE AppendAll(_, _, _)
AppendAll(doc, node, items) ==
    IF items = <<>> THEN doc
    ELSE AppendAll(ArrayInsert(doc, node, ArrayLen(doc, node), to_crdt(Head(items))),
                   node, Tail(items))

\* ArrayProxy.extend(value). value is a list (how = "list"), the proxy itself
\* (how = "self", items ignored) or a one-shot iterator (how = "iterator"):
\* it is iterated twice, by list.extend and by the loop over _root.append.
ArrayProxy_extend(self, doc, items, how) ==
    LET first == IF how = "self" THEN self.l ELSE items
        new == [self EXCEPT !.l = @ \o first]
        second == CASE how = "self" -> new.l
                    [] how = "iterator" -> <<>>
                    [] OTHER -> items
    IN Done(new, AppendAll(doc, self.root, second))

RECURSIVE DeleteAll(_, _)
DeleteAll(doc, node) ==
    IF ArrayLen(doc, node) = 0 THEN doc
    ELSE DeleteAll(ArrayDelete(doc, node, 0), node)

\* ArrayProxy.clear
ArrayProxy_clear(self, doc) ==
    Done([self EXCEPT !.l = <<>>], DeleteAll(doc, self.root))

\* ArrayProxy.insert: list.insert clamps the index, Array.insert refuses one
\* outside 0 .. len.
ArrayProxy_insert(self, doc, index, object) ==
    LET n == Len(self.l)
        k == IF Norm(index, n) < 0 THEN 0
             ELSE IF Norm(index, n) > n THEN n ELSE Norm(index, n)
        new == [self EXCEPT !.l = InsertAt(@, k + 1, object)]
    IN IF index < 0 \/ index > ArrayLen(doc, self.root)
       THEN Raised(new, doc, "RuntimeError")
       ELSE Done(new, ArrayInsert(doc, self.root, index, to_crdt(object)))

\* (mutant) an index out of range is taken for the nearest end
ArrayProxy_delitem_clamped(self, doc, key) ==
    LET n == Len(self.l)
        k == IF Norm(key, n) < 0 THEN 0
             ELSE IF Norm(key, n) > n - 1 THEN n - 1 ELSE Norm(key, n)
    IN IF n = 0 THEN Raised(self, doc, "IndexError")
       ELSE Done([self EXCEPT !.l = RemoveAt(@, k + 1)],
                 ArrayDelete(doc, self.root, k))

\* ArrayProxy.__delitem__
ArrayProxy_delitem(self, doc, key) ==
    LET k == Norm(key, Len(self.l))
        kd == Norm(key, ArrayLen(doc, self.root))
        new == [self EXCEPT !.l = RemoveAt(@, k + 1)]
    IN IF k \notin 0 .. Len(self.l) - 1 THEN Raised(self, doc, "IndexError")
       ELSE IF kd \notin 0 .. ArrayLen(doc, self.root) - 1
            THEN Raised(new, doc, "IndexError")
       ELSE Done(new, ArrayDelete(doc, self.root, kd))

\* What a call of pop has done (r, the outcome of the two pops the method
\* makes) and what it hands back: the method has no return statement.
Popped(r) == [self |-> r.self, doc |-> r.doc, exc |-> r.exc, ret |-> PyNone]

\* ArrayProxy.pop: super().pop(index), then self._root.pop(index); list.pop
\* and the Array's pop remove what __delitem__ removes.
ArrayProxy_pop(self, doc, index) == Popped(ArrayProxy_delitem(self, doc, index))

-----------------------------------------------------------------------------
(* MutantModel *)

\* (mutant) only the first blob is applied
apply_updates_first_only(doc, values) ==
    IF values = <<>> THEN doc ELSE apply_update(doc, Head(values))

\* MutantModel.apply_updates
RECURSIVE apply_updates(_, _)
apply_updates(doc, values) ==
    IF values = <<>> THEN doc
    ELSE apply_updates(apply_update(doc, Head(values)), Tail(values))

\* MutantModel.set_state: self._doc[ROOT_KEY] = to_crdt(value)
set_state(doc, value) == Fill(doc, ROOT_KEY, to_crdt(value), 1)

\* MutantModel.update
update(doc) == get_update(doc)

\* How many of update, updates, state a call provides.
Provided(upd, upds, st) ==
    (IF upd # PyNone THEN 1 ELSE 0) + (IF upds # <<>> THEN 1 ELSE 0)
        + (IF st # PyNone THEN 1 ELSE 0)

\* (mutant) the arguments are checked after they have been applied
MutantModel_init_late_check(client, upd, upds, st) ==
    LET d0 == Doc(client)
        d1 == IF upd # PyNone THEN apply_updates(d0, <<upd>>) ELSE d0
        d2 == IF upds # <<>> THEN apply_updates(d1, upds) ELSE d1
        d3 == IF st # PyNone THEN set_state(d2, st) ELSE d2
    IN [doc |-> d3, exc |-> IF Provided(upd, upds, st) > 1 THEN "ValueError" ELSE ""]

\* (mutant) a wrapper built from a blob works on the Doc the blob came from
MutantModel_init_on_source_doc(client, upd, upds, st) ==
    LET d0 == Doc(IF upd # PyNone /\ upd.structs # {}
                  THEN (CHOOSE x \in upd.structs : TRUE).id[1] ELSE client)
        d1 == IF upd # PyNone THEN apply_updates(d0, <<upd>>) ELSE d0
        d2 == IF upds # <<>> THEN apply_updates(d1, upds) ELSE d1
        d3 == IF st # PyNone THEN set_state(d2, st) ELSE d2
    IN IF Provided(upd, upds, st) > 1
       THEN [doc |-> d0, exc |-> "ValueError"]
       ELSE [doc |-> d3, exc |-> ""]

\* MutantModel.__init__ on a new Doc of the given client id: the Doc at the end
\* of the call and the exception raised.
MutantModel_init(client, upd, upds, st) ==
    LET d0 == Doc(client)
        d1 == IF upd # PyNone THEN apply_updates(d0, <<upd>>) ELSE d0
        d2 == IF upds # <<>> THEN apply_updates(d1, upds) ELSE d1
        d3 == IF st # PyNone THEN set_state(d2, st) ELSE d2
    IN IF Provided(upd, upds, st) > 1
       THEN [doc |-> d0, exc |-> "ValueError"]
       ELSE [doc |-> d3, exc |-> ""]

\* self._root.to_py()
root_to_py(doc) == to_py(doc, ROOT_KEY, "Map")

\* MutantModel.snapshot raises no ValidationError.
HasSnapshot(doc, cls) == Validates(cls, root_to_py(doc))

\* MutantModel.snapshot
snapshot(doc, cls) == model_validate(cls, root_to_py(doc))

\* (mutant) no validation: the tree is built over what the Document holds
MutateInTransaction_enter_unvalidated(doc, cls) ==
    [exc |-> "", wrapped |-> wrap(doc, ROOT_KEY, root_to_py(doc))]

\* MutateInTransaction.__enter__: the proxy tree, or the exception raised
\* before the transaction is opened.
MutateInTransaction_enter(doc, cls) ==
    LET py == root_to_py(doc)
        dump == Plain(model_validate(cls, py))
    IN IF ~Validates(cls, py) THEN [exc |-> "ValidationError", wrapped |-> PyNone]
       ELSE IF ~WrapOk(doc, ROOT_KEY, dump) THEN [exc |-> "KeyError", wrapped |-> PyNone]
       ELSE [exc |-> "", wrapped |-> wrap(doc, ROOT_KEY, dump)]

\* (mutant) the transaction is released only when the body did not raise
MutateInTransaction_exit_if_clean(e) == [open |-> e # "", suppress |-> FALSE]

\* MutateInTransaction.__exit__(exc_type, ...): whether the Document transaction
\* stays open and whether the exception is suppressed (a true return value).
MutateInTransaction_exit(e) == [open |-> FALSE, suppress |-> FALSE]

-----------------------------------------------------------------------------
(* Bounds and inputs *)

MaxOps == 2          \* calls on proxies per behaviour
MaxLen == 3          \* longest shadow sequence a call may produce

Wrappers == {"B", "B1", "B2"}
ClientIds == 1 .. 3

Author(n) == BaseModel("Author", [k \in {"name"} |-> PyStr(n)])
Post(t, n) ==
    BaseModel("Post", [k \in {"title", "author"} |->
        IF k = "title" THEN PyStr(t) ELSE Author(n)])
BlogPageConfig(c, posts) ==
    BaseModel("BlogPageConfig", [k \in {"collection", "posts"} |->
        IF k = "collection" THEN PyStr(c) ELSE PyList(posts)])

Strs == {"a"}
NewPosts == {Post(t, "n") : t \in Strs}
InitialStates ==
    {BlogPageConfig("c", ps) : ps \in {<<>>, <<Post("p", "n")>>,
                                       <<Post("p", "n"), Post("q", "n")>>}}

NoWrapper == [w \in Wrappers |-> NoDoc]
NoCtor == [n |-> 0, doc |-> NoDoc, exc |-> "", w |-> ""]
\* No migrate() call has been made.
NoMig ==
    [pc |-> "idle", instance |-> "", to |-> "", result |-> "", from_version_index |-> 0,
     to_version_index |-> 0, direction |-> 0, todo |-> <<>>, before |-> NoDoc,
     returned |-> FALSE]

-----------------------------------------------------------------------------
(* Calls on the proxy tree *)

\* The proxy objects of a tree are identified by the Document node they are
\* bound to: a call on one changes it wherever the tree holds it.
RECURSIVE Rebind(_, _, _)
Rebind(o, old, new) ==
    IF o.t = old.t /\ o.t \in {"ModelProxy", "ArrayProxy"} /\ o.root = old.root
    THEN new
    ELSE CASE o.t \in {"ModelProxy", "dict", "BaseModel"} ->
                [o EXCEPT !.d = [k \in DOMAIN o.d |-> Rebind(o.d[k], old, new)]]
           [] o.t \in {"ArrayProxy", "list"} ->
                [o EXCEPT !.l = [i \in DOMAIN o.l |-> Rebind(o.l[i], old, new)]]
           [] OTHER -> o

InBody(w) == pc[w] = "body" /\ exc = "" /\ nops < MaxOps

\* The outcome r of a call on the proxy at place p of w's tree.
Apply(w, p, r) ==
    /\ state' = [state EXCEPT ![w] = Rebind(@, GetAt(@, p), r.self)]
    /\ docs' = [docs EXCEPT ![w] = r.doc]
    /\ exc' = r.exc
    /\ nops' = nops + 1
    /\ UNCHANGED <<bound, txn, pc, ctor, registry, calls, mig>>

ProxiesOf(w, kind) == {p \in PathsOf(state[w]) : GetAt(state[w], p).t = kind}

\* The values a field of a mapping is assigned: a scalar for a str field, an
\* instance for a model field, a list of instances for a list field.
ValuesFor(f) ==
    CASE f.kind = "str" -> {PyStr(x) : x \in Strs}
      [] f.kind = "BaseModel" -> {Author(x) : x \in Strs}
      [] f.kind = "list" -> {PyList(<<x>>) : x \in NewPosts}
      [] f.kind = "int" -> {PyInt(0)}
      [] f.kind = "float" -> {PyFloat(0)}
      [] f.kind = "bool" -> {PyBool(FALSE)}

\* The type a proxied mapping at place p validates as.
RECURSIVE ClassAt(_, _)
ClassAt(cls, p) ==
    IF p = <<>> THEN cls
    ELSE IF "k" \in DOMAIN Head(p)
         THEN IF ModelFields(cls)[Head(p).k].kind = "list"
              THEN ClassAt(ModelFields(cls)[Head(p).k].of, Tail(Tail(p)))
              ELSE ClassAt(ModelFields(cls)[Head(p).k].of, Tail(p))
         ELSE cls

\* state.<...>.key = value
SetAttr(w, p, key, value) ==
    /\ InBody(w)
    /\ p \in ProxiesOf(w, "ModelProxy")
    /\ Apply(w, p, ModelProxy_setattr(GetAt(state[w], p), docs[w], key, value))

\* state.<...>.append(item)
ArrayAppend(w, p, item) ==
    /\ InBody(w)
    /\ p \in ProxiesOf(w, "ArrayProxy")
    /\ Len(GetAt(state[w], p).l) < MaxLen
    /\ Apply(w, p, ArrayProxy_append(GetAt(state[w], p), docs[w], item))

\* state.<...>[key] = value
ArraySetItem(w, p, key, value) ==
    /\ InBody(w)
    /\ p \in ProxiesOf(w, "ArrayProxy")
    /\ Apply(w, p, ArrayProxy_setitem(GetAt(state[w], p), docs[w], key, value))

\* state.<...>.extend(value)
ArrayExtend(w, p, items, how) ==
    /\ InBody(w)
    /\ p \in ProxiesOf(w, "ArrayProxy")
    /\ Len(GetAt(state[w], p).l)
         + (IF how = "self" THEN Len(GetAt(state[w], p).l) ELSE Len(items)) <= MaxLen
    /\ Apply(w, p, ArrayProxy_extend(GetAt(state[w], p), docs[w], items, how))

\* state.<...>.clear()
ArrayClear(w, p) ==
    /\ InBody(w)
    /\ p \in ProxiesOf(w, "ArrayProxy")
    /\ Apply(w, p, ArrayProxy_clear(GetAt(state[w], p), docs[w]))

\* state.<...>.insert(index, object)
ArrayInsertAt(w, p, index, object) ==
    /\ InBody(w)
    /\ p \in ProxiesOf(w, "ArrayProxy")
    /\ Len(GetAt(state[w], p).l) < MaxLen
    /\ Apply(w, p, ArrayProxy_insert(GetAt(state[w], p), docs[w], index, object))

\* state.<...>.pop(index)
ArrayPop(w, p, index) ==
    /\ InBody(w)
    /\ p \in ProxiesOf(w, "ArrayProxy")
    /\ Apply(w, p, ArrayProxy_pop(GetAt(state[w], p), docs[w], index))

\* del state.<...>[key]
ArrayDelItem(w, p, key) ==
    /\ InBody(w)
    /\ p \in ProxiesOf(w, "ArrayProxy")
    /\ Apply(w, p, ArrayProxy_delitem(GetAt(state[w], p), docs[w], key))

-----------------------------------------------------------------------------
(* with wrapper.mutate() as state: ... *)

Idle == mig.pc = "idle" /\ \A w \in Wrappers : pc[w] = "out"

\* The with statement calls __enter__; the body runs if it returns.
Enter(w) ==
    /\ Idle
    /\ docs[w] # NoDoc
    /\ nops < MaxOps
    /\ LET r == MutateInTransaction_enter(docs[w], bound[w])
       IN /\ exc' = r.exc
          /\ IF r.exc = ""
             THEN /\ state' = [state EXCEPT ![w] = r.wrapped]
                  /\ txn' = [txn EXCEPT ![w] = TRUE]
                  /\ pc' = [pc EXCEPT ![w] = "body"]
             ELSE UNCHANGED <<state, txn, pc>>
    /\ UNCHANGED <<docs, bound, ctor, registry, calls, mig, nops>>

\* The body raises (as JsonPathMutator.set does on a path that matches nothing).
BodyRaises(w) ==
    /\ pc[w] = "body" /\ exc = "" /\ mig.pc = "idle"
    /\ exc' = "ValueError"
    /\ UNCHANGED <<docs, bound, txn, pc, state, ctor, registry, calls, mig, nops>>

\* The with statement calls __exit__ when the body ends or an exception leaves
\* it; the exception goes on to the caller unless __exit__ suppresses it.
Exit(w) ==
    /\ pc[w] = "body" /\ mig.pc = "idle"
    /\ LET r == MutateInTransaction_exit(exc)
       IN /\ txn' = [txn EXCEPT ![w] = r.open]
          /\ exc' = IF r.suppress THEN "" ELSE exc
    /\ pc' = [pc EXCEPT ![w] = "out"]
    /\ UNCHANGED <<docs, bound, state, ctor, registry, calls, mig, nops>>

-----------------------------------------------------------------------------
(* One wrapper seeded from a model instance, edited in mutate() scopes *)

Init ==
    /\ \E st \in InitialStates :
         docs = [NoWrapper EXCEPT !["B"] = MutantModel_init(1, PyNone, <<>>, st).doc]
    /\ bound = [w \in Wrappers |-> "BlogPageConfig"]
    /\ txn = [w \in Wrappers |-> FALSE]
    /\ pc = [w \in Wrappers |-> "out"]
    /\ state = [w \in Wrappers |-> PyNone]
    /\ exc = ""
    /\ ctor = NoCtor
    /\ registry = <<>>
    /\ calls = <<>>
    /\ mig = NoMig
    /\ nops = 0

Indices(w, p) ==
    LET n == Len(GetAt(state[w], p).l) IN -(n + 1) .. n + 1

Writes(w) ==
    \/ \E p \in ProxiesOf(w, "ModelProxy") :
         \E key \in DOMAIN ModelFields(ClassAt(bound[w], p)) :
           \E value \in ValuesFor(ModelFields(ClassAt(bound[w], p))[key]) :
             SetAttr(w, p, key, value)
    \/ \E p \in ProxiesOf(w, "ArrayProxy") :
         \/ \E item \in NewPosts : ArrayAppend(w, p, item)
         \/ \E key \in Indices(w, p), item \in NewPosts : ArraySetItem(w, p, key, item)
         \/ \E items \in {<<x>> : x \in NewPosts}, how \in {"list", "iterator"} :
              ArrayExtend(w, p, items, how)
         \/ ArrayExtend(w, p, <<>>, "self")
         \/ ArrayClear(w, p)
         \/ \E index \in Indices(w, p), item \in NewPosts : ArrayInsertAt(w, p, index, item)
         \/ \E index \in Indices(w, p) : ArrayPop(w, p, index)
         \/ \E key \in Indices(w, p) : ArrayDelItem(w, p, key)

Next ==
    \/ Enter("B")
    \/ Writes("B")
    \/ BodyRaises("B")
    \/ Exit("B")

Spec == Init /\ [][Next]_vars

-----------------------------------------------------------------------------
(* Wrappers built from a model instance or from each other's blobs, each
   edited in its own mutate() scope *)

Constructed == {w \in Wrappers : docs[w] # NoDoc}
Blobs == {update(docs[v]) : v \in Constructed}

\* The wrapper is bound to w when __init__ returns the outcome r; the call is
\* recorded with the number n of arguments it provided.
Built(w, cls, n, r) ==
    /\ ctor' = [n |-> n, doc |-> r.doc, exc |-> r.exc, w |-> w]
    /\ exc' = r.exc
    /\ docs' = IF r.exc = "" THEN [docs EXCEPT ![w] = r.doc] ELSE docs
    /\ bound' = IF r.exc = "" THEN [bound EXCEPT ![w] = cls] ELSE bound

\* w = MutantModel[cls](update=upd, updates=upds, state=st); the new Doc draws
\* a client id no other Doc has.
New(w, client, upd, upds, st, cls) ==
    /\ Idle
    /\ docs[w] = NoDoc
    /\ client \notin {docs[v].client : v \in Constructed}
    /\ Built(w, cls, Provided(upd, upds, st), MutantModel_init(client, upd, upds, st))
    /\ UNCHANGED <<txn, pc, state, registry, calls, mig, nops>>

SeedState == BlogPageConfig("c", <<Post("p", "n"), Post("q", "n")>>)

\* Every argument combination of the constructor
NewAny(w) ==
    \E client \in ClientIds :
      \E upd \in {PyNone} \cup Blobs,
         upds \in {<<>>} \cup {<<a>> : a \in Blobs} \cup (Blobs \X Blobs),
         st \in {PyNone, SeedState} :
        New(w, client, upd, upds, st, "BlogPageConfig")

InitNew ==
    /\ docs = NoWrapper
    /\ bound = [w \in Wrappers |-> "BlogPageConfig"]
    /\ txn = [w \in Wrappers |-> FALSE]
    /\ pc = [w \in Wrappers |-> "out"]
    /\ state = [w \in Wrappers |-> PyNone]
    /\ exc = ""
    /\ ctor = NoCtor
    /\ registry = <<>>
    /\ calls = <<>>
    /\ mig = NoMig
    /\ nops = 0

NextNew == \E w \in Wrappers : NewAny(w)

SpecNew == InitNew /\ [][NextNew]_vars

\* B1 and B2 are built from the blob of B, as update= or as updates=[...]
NewFrom(w) ==
    \E client \in ClientIds :
      \/ New(w, client, update(docs["B"]), <<>>, PyNone, bound["B"])
      \/ New(w, client, PyNone, <<update(docs["B"])>>, PyNone, bound["B"])

\* The calls that succeed on the proxies of w
Edits(w) ==
    \/ \E p \in ProxiesOf(w, "ModelProxy") :
         \E key \in DOMAIN ModelFields(ClassAt(bound[w], p)) :
           \E value \in ValuesFor(ModelFields(ClassAt(bound[w], p))[key]) :
             SetAttr(w, p, key, value)
    \/ \E p \in ProxiesOf(w, "ArrayProxy") :
         LET n == Len(GetAt(state[w], p).l)
         IN \/ \E item \in NewPosts : ArrayAppend(w, p, item)
            \/ \E key \in 0 .. n - 1, item \in NewPosts : ArraySetItem(w, p, key, item)
            \/ \E items \in {<<x>> : x \in NewPosts} : ArrayExtend(w, p, items, "list")
            \/ ArrayClear(w, p)
            \/ \E index \in 0 .. n, item \in NewPosts : ArrayInsertAt(w, p, index, item)
            \/ \E index \in 0 .. n - 1 : ArrayPop(w, p, index)
            \/ \E key \in 0 .. n - 1 : ArrayDelItem(w, p, key)

NextMerge ==
    \/ \E w \in {"B1", "B2"} : NewFrom(w)
    \/ \E w \in {"B1", "B2"} : Enter(w)
    \/ \E w \in {"B1", "B2"} : Edits(w)
    \/ \E w \in {"B1", "B2"} : Exit(w)

SpecMerge == Init /\ [][NextMerge]_vars

-----------------------------------------------------------------------------
(* Claims *)

\* A wrapper of the same bound type built from the exported blob:
\* MutantModel[T](update=w.update).
Reconstructed(w) == MutantModel_init(docs[w].client + 1, update(docs[w]), <<>>, PyNone).doc

\* A mutate() scope of w has closed without an exception and w's tree still
\* holds the proxied sequence `posts`.
ClosedNormally(w) ==
    /\ pc[w] = "out" /\ exc = "" /\ state[w] # PyNone
    /\ state[w].d["posts"].t = "ArrayProxy"

\* C1: after any sequence of append, insert, set-at-index, pop, delete-at, clear
\* and extend calls with valid indices on a proxied sequence in one mutate()
\* scope, the sequence read from a wrapper rebuilt from the exported blob equals
\* the shadow sequence at transaction close.
C1_SequenceFidelity ==
    \A w \in Wrappers :
        ClosedNormally(w) =>
            /\ HasSnapshot(Reconstructed(w), bound[w])
            /\ Plain(snapshot(Reconstructed(w), bound[w]).d["posts"])
                 = Plain(state[w].d["posts"])

\* The integrated Map / Array at place p of the Document, NoId if there is none.
RECURSIVE NodeAt(_, _, _)
NodeAt(doc, node, p) ==
    IF p = <<>> THEN node
    ELSE IF "k" \in DOMAIN Head(p)
         THEN IF Head(p).k \in MapKeys(doc, node)
              THEN NodeAt(doc, MapItem(doc, node, Head(p).k).id, Tail(p))
              ELSE NoId
         ELSE IF Head(p).i <= ArrayLen(doc, node)
              THEN NodeAt(doc, ArrayItem(doc, node, Head(p).i - 1).id, Tail(p))
              ELSE NoId

\* The proxied mapping at place p of w's tree is the one wrap() bound to the
\* Document node at p.
BoundInPlace(w, p) ==
    /\ p \in ProxiesOf(w, "ModelProxy")
    /\ NodeAt(docs[w], ROOT_KEY, p) = GetAt(state[w], p).root

\* A plain value with field key of the mapping at place p set to v.
PlainPut(py, p, key, v) == SetAt(py, p, [GetAt(py, p) EXCEPT !.d = Put(@, key, v)])

\* C2: assigning a field of a proxied mapping at any depth sets the field in the
\* shadow and in the Document node at the same path and changes nothing else in
\* the Document; closing the transaction leaves the Document as it is, so the
\* snapshot shows the value.
C2_SetAttrWritesThrough ==
    [][\A w \in Wrappers :
         /\ \A p \in PathsOf(state[w]) :
              BoundInPlace(w, p) =>
                \A key \in DOMAIN ModelFields(ClassAt(bound[w], p)) :
                  \A value \in ValuesFor(ModelFields(ClassAt(bound[w], p))[key]) :
                    SetAttr(w, p, key, value) =>
                      /\ GetAt(state'[w], p).d[key] = value
                      /\ root_to_py(docs'[w])
                           = PlainPut(root_to_py(docs[w]), p, key, Plain(value))
                      /\ HasSnapshot(docs'[w], bound[w])
                      /\ GetAt(Plain(snapshot(docs'[w], bound[w])), p).d[key]
                           = Plain(value)
         /\ (pc[w] = "body" /\ pc'[w] = "out") =>
              root_to_py(docs'[w]) = root_to_py(docs[w])
      ]_vars

\* A scope has closed after name of the author of the first post, a mapping
\* nested in an element of the proxied sequence, was assigned.
C2_Witness ==
    \E w \in Wrappers :
        /\ pc[w] = "out" /\ exc = "" /\ state[w] # PyNone
        /\ <<[k |-> "posts"], [i |-> 1], [k |-> "author"]>> \in ProxiesOf(w, "ModelProxy")
        /\ GetAt(state[w], <<[k |-> "posts"], [i |-> 1], [k |-> "author"]>>).d["name"] = PyStr("a")
        /\ HasSnapshot(docs[w], bound[w])
        /\ snapshot(docs[w], bound[w]).d["posts"].l[1].d["author"].d["name"] = PyStr("a")

\* C9: a mutate() scope that was entered releases its Document transaction when
\* it exits, with or without an exception, and the exception goes on to the
\* caller: no transaction is open outside a scope.
C9_ScopeReleases ==
    /\ [](\A w \in Wrappers : pc[w] = "out" => ~txn[w])
    /\ [][\A w \in Wrappers :
            (pc[w] = "body" /\ pc'[w] = "out") => (~txn'[w] /\ exc' = exc)]_vars

\* A scope was left by an exception: the transaction is released and the caller
\* has the exception.
C9_Witness ==
    \E w \in Wrappers :
        pc[w] = "out" /\ state[w] # PyNone /\ exc = "ValueError" /\ ~txn[w]

-----------------------------------------------------------------------------
(* Merging the blobs of two wrappers derived from the same base *)

ItemOf(doc, id) == doc.items[IndexOfId(doc.items, id)]

\* The items a reader of the Document reaches from a node: the current item of
\* every key of a Map, the live elements of an Array, and what those contain.
RECURSIVE VisibleFrom(_, _, _)
VisibleFrom(doc, node, kind) ==
    LET here == IF kind = "Map"
                THEN {MapItem(doc, node, k) : k \in MapKeys(doc, node)}
                ELSE LET l == Live(doc.items, node, "")
                     IN {doc.items[l[i]] : i \in DOMAIN l}
    IN {x.id : x \in here}
         \cup UNION {VisibleFrom(doc, x.id, x.c.t) :
                        x \in {y \in here : y.c.t \in {"Map", "Array"}}}

Visible(doc) == VisibleFrom(doc, ROOT_KEY, "Map")

\* The nodes an item lies in, up to the root.
RECURSIVE Ancestors(_, _)
Ancestors(doc, id) ==
    LET p == ItemOf(doc, id).parent
    IN IF p = ROOT_KEY THEN {} ELSE {p} \cup Ancestors(doc, p)

\* What the edits of w added to the base, and what they removed from it.
Added(w) == Visible(docs[w]) \ Ids(docs["B"])
Removed(w) == Visible(docs["B"]) \ Visible(docs[w])

\* The edits of v and w meet: both wrote the same key of the same mapping, or
\* one wrote inside a value the other removed.
SameLocation(v, w) ==
    \/ \E a \in Added(v), b \in Added(w) :
         /\ a # b
         /\ ItemOf(docs[v], a).sub # ""
         /\ ItemOf(docs[v], a).parent = ItemOf(docs[w], b).parent
         /\ ItemOf(docs[v], a).sub = ItemOf(docs[w], b).sub
    \/ \E a \in Added(v) : Ancestors(docs[v], a) \cap Removed(w) # {}
    \/ \E b \in Added(w) : Ancestors(docs[w], b) \cap Removed(v) # {}

\* MutantModel[cls](updates=(a, b)) on a fresh Doc
Merged(a, b) == MutantModel_init(Cardinality(ClientIds) + 1, PyNone, <<a, b>>, PyNone).doc

\* B1 and B2 were built from B's blob and each was edited in a closed scope.
BothEdited ==
    /\ Idle /\ exc = ""
    /\ \A w \in {"B1", "B2"} :
         /\ docs[w] # NoDoc
         /\ Added(w) \cup Removed(w) # {}

HoldsEdit(m, w) == Added(w) \subseteq Visible(m) /\ Removed(w) \cap Visible(m) = {}

MergeAgrees(m12, m21) ==
    /\ HasSnapshot(m12, bound["B"]) /\ HasSnapshot(m21, bound["B"])
    /\ snapshot(m12, bound["B"]) = snapshot(m21, bound["B"])
    /\ ~SameLocation("B1", "B2") => HoldsEdit(m12, "B1") /\ HoldsEdit(m12, "B2")

\* C3: wrappers B1 and B2 are built from the blob of B and each is edited; a
\* fresh wrapper built with updates=(B1.update, B2.update) and one built with
\* updates=(B2.update, B1.update) have the same snapshot, and when the two
\* edits are at different locations the merged Document shows what each edit
\* added and nothing either edit removed.
C3_MergeCommutes ==
    BothEdited =>
        MergeAgrees(Merged(update(docs["B1"]), update(docs["B2"])),
                    Merged(update(docs["B2"]), update(docs["B1"])))

C3_Witness ==
    /\ BothEdited
    /\ ~SameLocation("B1", "B2")
    /\ Added("B1") # {} /\ Removed("B2") # {}
    /\ HoldsEdit(Merged(update(docs["B1"]), update(docs["B2"])), "B2")

\* C10: a constructor call that provides two or more of update, updates and
\* state raises ValueError, returns no wrapper, and its new Doc holds nothing
\* when it raises; a call that provides exactly one of them succeeds.
C10_ArgumentConflict ==
    /\ ctor.n >= 2 => /\ ctor.exc = "ValueError"
                      /\ ctor.doc.items = <<>>
                      /\ docs[ctor.w] = NoDoc
    /\ ctor.n = 1 => ctor.exc = "" /\ docs[ctor.w] = ctor.doc

C10_Witness == ctor.n >= 2 /\ ctor.exc = "ValueError" /\ Cardinality(Constructed) >= 1

-----------------------------------------------------------------------------
(* ModelVersionRegistry.migrate over the version classes of test_migrate.py *)

\* ModelVersion.up(state, state)
up(ModelVersion, state_, doc) ==
    CASE ModelVersion = "ModelV1" -> Raised(state_, doc, "NotImplementedError")
      [] ModelVersion = "ModelV2" -> ModelProxy_delattr(state_, doc, "field")
      [] ModelVersion = "ModelV3" ->
           ModelProxy_setattr(state_, doc, "some_new_field", PyFloat(42))
      [] ModelVersion = "ModelV4" ->
           ModelProxy_setattr(state_, doc, "another_new_field", PyBool(TRUE))
      [] ModelVersion = "ModelV5" ->
           ModelProxy_setattr(state_, doc, "yet_another_field", PyInt(100))

\* ModelVersion.down(state, state)
down(ModelVersion, state_, doc) ==
    CASE ModelVersion = "ModelV1" -> Raised(state_, doc, "NotImplementedError")
      [] ModelVersion = "ModelV2" ->
           ModelProxy_setattr(state_, doc, "field", PyStr("default"))
      [] ModelVersion = "ModelV3" -> ModelProxy_delattr(state_, doc, "some_new_field")
      [] ModelVersion = "ModelV4" -> ModelProxy_delattr(state_, doc, "another_new_field")
      [] ModelVersion = "ModelV5" -> ModelProxy_delattr(state_, doc, "yet_another_field")

\* (mutant) a class that is not listed is taken for the first one
index_or_first(model_versions, cls) ==
    IF \E q \in DOMAIN model_versions : model_versions[q] = cls
    THEN (CHOOSE q \in DOMAIN model_versions :
            /\ model_versions[q] = cls
            /\ \A q2 \in 1 .. q - 1 : model_versions[q2] # cls) - 1
    ELSE 0

\* model_versions.index(cls): the 0-based position of the first occurrence, or
\* -1 where list.index raises ValueError
index(model_versions, cls) ==
    IF \E q \in DOMAIN model_versions : model_versions[q] = cls
    THEN (CHOOSE q \in DOMAIN model_versions :
            /\ model_versions[q] = cls
            /\ \A q2 \in 1 .. q - 1 : model_versions[q2] # cls) - 1
    ELSE -1

Min(a, b) == IF a < b THEN a ELSE b

\* The 0-based positions a list of length n yields under slice(start, stop,
\* step), for step 1 or -1 and start, stop >= 0.
SliceIndices(start, stop, step, n) ==
    IF step = 1
    THEN [q \in 1 .. (Min(stop, n) - Min(start, n)) |-> Min(start, n) + q - 1]
    ELSE [q \in 1 .. (Min(start, n - 1) - stop) |-> Min(start, n - 1) - q + 1]

\* (mutant) the backward slice runs through the target version
slicer_through_target(from_version_index, to_version_index, n) ==
    IF from_version_index < to_version_index
    THEN SliceIndices(from_version_index + 1, to_version_index + 1, 1, n)
    ELSE [q \in 1 .. (from_version_index - to_version_index + 1) |->
            from_version_index - q + 1]

\* (mutant) the forward slice starts at the source version
slicer_from_source(from_version_index, to_version_index, n) ==
    IF from_version_index < to_version_index
    THEN SliceIndices(from_version_index, to_version_index + 1, 1, n)
    ELSE SliceIndices(from_version_index, to_version_index, -1, n)

\* The positions model_versions[slicer] holds, in order
slicer(from_version_index, to_version_index, n) ==
    IF from_version_index < to_version_index
    THEN SliceIndices(from_version_index + 1, to_version_index + 1, 1, n)
    ELSE SliceIndices(from_version_index, to_version_index, -1, n)

\* (mutant) schema_version goes up whatever the direction
schema_version_incremented(state_, doc, direction) ==
    ModelProxy_setattr(state_, doc, "schema_version",
                       PyInt(state_.d["schema_version"].n + 1))

\* (mutant) schema_version is left as it is
schema_version_kept(state_, doc, direction) == Done(state_, doc)

\* state.schema_version += direction
schema_version_iadd(state_, doc, direction) ==
    ModelProxy_setattr(state_, doc, "schema_version",
                       PyInt(state_.d["schema_version"].n + direction))

\* One pass of the loop body: the hook, then the version adjustment unless the
\* hook raised.
LoopBody(ModelVersion, direction, state_, doc) ==
    LET r == IF direction = 1 THEN up(ModelVersion, state_, doc)
             ELSE down(ModelVersion, state_, doc)
    IN IF r.exc # "" THEN r ELSE schema_version_iadd(r.self, r.doc, direction)

HookName(direction) == IF direction = 1 THEN "up" ELSE "down"

\* The call has looked both versions up (i, j) and __enter__ has returned r.
Began(instance, to, i, j, r) ==
    /\ exc' = IF i < 0 \/ j < 0 THEN "ValueError" ELSE r.exc
    /\ IF i >= 0 /\ j >= 0 /\ r.exc = ""
       THEN /\ state' = [state EXCEPT ![instance] = r.wrapped]
            /\ txn' = [txn EXCEPT ![instance] = TRUE]
            /\ pc' = [pc EXCEPT ![instance] = "body"]
            /\ mig' = [pc |-> "loop", instance |-> instance, to |-> to,
                       result |-> "",
                       from_version_index |-> i, to_version_index |-> j,
                       direction |-> IF i < j THEN 1 ELSE -1,
                       todo |-> slicer(i, j, Len(registry)),
                       before |-> docs[instance], returned |-> FALSE]
       ELSE /\ mig' = [NoMig EXCEPT !.instance = instance, !.to = to,
                                    !.before = docs[instance]]
            /\ UNCHANGED <<state, txn, pc>>

\* registry.migrate(instance, to=to) up to the start of the loop
MigrateBegin(instance, to) ==
    /\ Idle
    /\ docs[instance] # NoDoc
    /\ nops < MaxOps
    /\ Began(instance, to, index(registry, bound[instance]), index(registry, to),
             MutateInTransaction_enter(docs[instance], bound[instance]))
    /\ calls' = <<>>
    /\ nops' = nops + 1
    /\ UNCHANGED <<docs, bound, ctor, registry>>

\* The loop body has run for ModelVersion with outcome r.
Stepped(ModelVersion, r) ==
    /\ calls' = Append(calls, <<ModelVersion, HookName(mig.direction)>>)
    /\ state' = [state EXCEPT ![mig.instance] = r.self]
    /\ docs' = [docs EXCEPT ![mig.instance] = r.doc]
    /\ exc' = r.exc
    /\ mig' = [mig EXCEPT !.todo = Tail(@),
                          !.pc = IF r.exc # "" THEN "raised" ELSE "loop"]

\* for ModelVersion in self.model_versions[slicer]: one iteration
MigrateStep ==
    /\ mig.pc = "loop"
    /\ mig.todo # <<>>
    /\ Stepped(registry[Head(mig.todo) + 1],
               LoopBody(registry[Head(mig.todo) + 1], mig.direction,
                        state[mig.instance], docs[mig.instance]))
    /\ UNCHANGED <<bound, txn, pc, ctor, registry, nops>>

\* __exit__ has returned r: an exception that is not suppressed leaves migrate.
Exited(r) ==
    /\ txn' = [txn EXCEPT ![mig.instance] = r.open]
    /\ exc' = IF r.suppress THEN "" ELSE exc
    /\ mig' = [mig EXCEPT !.pc = IF exc # "" /\ ~r.suppress THEN "idle" ELSE "result"]

\* The with statement ends: the loop is over, or a hook raised.
MigrateExit ==
    /\ \/ mig.pc = "loop" /\ mig.todo = <<>>
       \/ mig.pc = "raised"
    /\ Exited(MutateInTransaction_exit(exc))
    /\ pc' = [pc EXCEPT ![mig.instance] = "out"]
    /\ UNCHANGED <<docs, bound, state, ctor, registry, calls, nops>>

\* (mutant) the assignment to PydanticModel is lost
PydanticModel_unset(orig_class, value) == orig_class

\* The PydanticModel setter: the type a wrapper is bound to after
\* wrapper.PydanticModel = value, whatever its type parameter orig_class was.
PydanticModel_set(orig_class, value) == value

\* result = MutantModel[To](update=instance.update); result.PydanticModel = to;
\* the caller binds the returned wrapper to w. The Doc of the new wrapper draws
\* a client id no Doc in use has, the source's included.
MigrateResult(w, client) ==
    /\ mig.pc = "result"
    /\ client \notin {docs[v].client : v \in Constructed}
    /\ docs' = [docs EXCEPT ![w] =
                  MutantModel_init(client, update(docs[mig.instance]), <<>>, PyNone).doc]
    /\ bound' = [bound EXCEPT ![w] = PydanticModel_set("To", mig.to)]
    /\ state' = [state EXCEPT ![w] = PyNone]
    /\ mig' = [mig EXCEPT !.pc = "idle", !.returned = TRUE, !.result = w]
    /\ UNCHANGED <<txn, pc, exc, ctor, registry, calls, nops>>

Versions == {"ModelV1", "ModelV2", "ModelV3", "ModelV4", "ModelV5"}

\* The registry of the tests, and one that lists ModelV1 (whose hooks raise)
\* after other versions
Registries ==
    {<<"ModelV1", "ModelV2", "ModelV3", "ModelV4", "ModelV5">>,
     <<"ModelV2", "ModelV3", "ModelV1">>}

\* The instances the tests build, schema_version at the default of the class
Instance(cls) ==
    LET all == [schema_version |-> ModelFields(cls).schema_version.default,
                field |-> PyStr("hello"), some_field |-> PyStr("world"),
                some_new_field |-> PyFloat(42), another_new_field |-> PyBool(TRUE),
                yet_another_field |-> PyInt(100)]
    IN BaseModel(cls, [k \in DOMAIN ModelFields(cls) |-> all[k]])

InitMig ==
    /\ registry \in Registries
    /\ \E cls \in Versions :
         /\ docs = [NoWrapper EXCEPT !["B"] =
                      MutantModel_init(2, PyNone, <<>>, Instance(cls)).doc]
         /\ bound = [w \in Wrappers |-> cls]
    /\ txn = [w \in Wrappers |-> FALSE]
    /\ pc = [w \in Wrappers |-> "out"]
    /\ state = [w \in Wrappers |-> PyNone]
    /\ exc = ""
    /\ ctor = NoCtor
    /\ calls = <<>>
    /\ mig = NoMig
    /\ nops = 0

\* The copy B1 is built from the blob of B and edited by attribute assignments
\* on its root; B is migrated, and so is the wrapper B2 a migration returned.
NextMig ==
    \/ NewFrom("B1")
    \/ Enter("B1")
    \/ \E key \in DOMAIN ModelFields(bound["B1"]) :
         \E value \in ValuesFor(ModelFields(bound["B1"])[key]) :
           SetAttr("B1", <<>>, key, value)
    \/ Exit("B1")
    \/ \E instance \in {"B", "B2"}, to \in Versions : MigrateBegin(instance, to)
    \/ MigrateStep
    \/ MigrateExit
    \/ \E client \in ClientIds : MigrateResult("B2", client)

SpecMig == InitMig /\ [][NextMig]_vars

-----------------------------------------------------------------------------
(* Claims about migrate *)

\* The schema_version a Document stores.
StoredVersion(doc) == MapItem(doc, ROOT_KEY, "schema_version").c.n

IsPrefix(s, t) == Len(s) <= Len(t) /\ \A q \in DOMAIN s : s[q] = t[q]

\* The hooks the claim names for a migration from position i to position j
\* (0-based positions; the registry is a 1-based sequence).
ClaimedHooks(i, j) ==
    IF i < j
    THEN [q \in 1 .. (j - i) |-> <<registry[i + q + 1], "up">>]
    ELSE [q \in 1 .. (i - j) |-> <<registry[i - q + 2], "down">>]

\* C5: migrate from position i to position j calls the up-hooks of positions
\* i+1..j in ascending order when i < j and the down-hooks of positions
\* i, i-1, .., j+1 in descending order when i > j, each once and no other hook:
\* the calls made so far are always a prefix of that list, and all of it once
\* migrate has returned.
C5_HooksInOrder ==
    /\ IsPrefix(calls, ClaimedHooks(mig.from_version_index, mig.to_version_index))
    /\ mig.returned =>
         calls = ClaimedHooks(mig.from_version_index, mig.to_version_index)

C5_Witness ==
    /\ mig.returned
    /\ mig.direction = -1
    /\ Len(calls) >= 2
    /\ calls[1][1] = bound[mig.instance]

\* C6: the schema_version the returned wrapper stores is the one stored before
\* the call plus (j - i); inside the loop it has moved by the direction once
\* per hook that has returned; with the registry of the tests and a document
\* stored at version i+1 the result is at version j+1.
C6_VersionMovesByDistance ==
    /\ mig.returned =>
         StoredVersion(docs[mig.result]) =
             StoredVersion(mig.before) + (mig.to_version_index - mig.from_version_index)
    /\ mig.pc = "loop" =>
         StoredVersion(docs[mig.instance]) =
             StoredVersion(mig.before) + mig.direction * Len(calls)
    /\ ( /\ mig.returned
         /\ Len(registry) = Cardinality(Versions)
         /\ StoredVersion(mig.before) = mig.from_version_index + 1 ) =>
         StoredVersion(docs[mig.result]) = mig.to_version_index + 1

C6_Witness ==
    /\ mig.returned
    /\ mig.from_version_index # mig.to_version_index
    /\ StoredVersion(docs[mig.result]) # mig.to_version_index + 1
    /\ StoredVersion(docs[mig.result]) # StoredVersion(mig.before)

\* C7: whenever no transaction is open on the wrapper a migrate call was made
\* on, its Document stores the schema_version it had before the call or that
\* version moved by the whole distance (j - i), never one in between.
C7_OneTransition ==
    (mig.instance # "" /\ ~txn[mig.instance]) =>
        StoredVersion(docs[mig.instance]) \in
            {StoredVersion(mig.before),
             StoredVersion(mig.before) + (mig.to_version_index - mig.from_version_index)}

\* C8: when a hook has raised and migrate has ended with that exception, no
\* wrapper was returned and the source Document holds what it held before.
C8_FailedMigrateLeavesSource ==
    (mig.pc = "idle" /\ mig.instance # "" /\ exc = "NotImplementedError") =>
        ~mig.returned /\ docs[mig.instance] = mig.before

\* The fields every version declares.
EveryVersion == {k \in DOMAIN ModelFields("ModelV1") :
                    \A cls \in Versions : k \in DOMAIN ModelFields(cls)}

\* The root fields whose current value in B1 was written by B1.
EditedKeys ==
    {k \in MapKeys(docs["B1"], ROOT_KEY) :
        MapItem(docs["B1"], ROOT_KEY, k).id[1] = docs["B1"].client}

\* B1 was built from the blob B exported before the migration, B was migrated
\* forward and the call returned, and B1's edits are of fields among keys.
EditedCopyOf(keys) ==
    /\ Idle /\ mig.returned /\ mig.instance = "B"
    /\ mig.from_version_index < mig.to_version_index
    /\ docs["B1"] # NoDoc
    /\ {x \in Ids(docs["B1"]) : x[1] # docs["B1"].client} = Ids(mig.before)
    /\ EditedKeys # {}
    /\ EditedKeys \subseteq keys

\* The merge of the migrated wrapper's blob with the copy's shows the copy's
\* value of every field the copy edited, the schema_version the migration
\* reached, and the fields the target version adds as the migration set them.
MergeKeepsBoth(m) ==
    /\ HasSnapshot(m, mig.to)
    /\ \A k \in EditedKeys :
         snapshot(m, mig.to).d[k] = root_to_py(docs["B1"]).d[k]
    /\ snapshot(m, mig.to).d["schema_version"] = PyInt(StoredVersion(docs[mig.result]))
    /\ \A k \in DOMAIN ModelFields(mig.to) \ DOMAIN ModelFields(bound["B"]) :
         snapshot(m, mig.to).d[k] = snapshot(docs[mig.result], mig.to).d[k]

\* C4 as stated: for an edit of any field that exists in every version.
C4_AnyCommonField ==
    EditedCopyOf(EveryVersion) =>
        MergeKeepsBoth(Merged(update(docs[mig.result]), update(docs["B1"])))

\* C4: a copy built from the pre-migration blob edits a field that exists in
\* every version other than schema_version, and the original is migrated
\* forward; merging the migrated wrapper's blob with the copy's blob gives a
\* snapshot with the copy's value of the field, the target schema_version and
\* every field the up-hooks introduced.
C4_CommonFieldButVersion ==
    EditedCopyOf(EveryVersion \ {"schema_version"}) =>
        MergeKeepsBoth(Merged(update(docs[mig.result]), update(docs["B1"])))

C4_Witness ==
    /\ EditedCopyOf(EveryVersion \ {"schema_version"})
    /\ mig.to_version_index - mig.from_version_index >= 2
    /\ root_to_py(docs["B1"]).d["some_field"] # root_to_py(docs["B"]).d["some_field"]

-----------------------------------------------------------------------------
(* Claims about construction and export *)

\* C11: a constructor call that provides none of update, updates and state
\* raises and returns no wrapper, as a call that provides more than one does.
C11_NoneGivenFails ==
    (ctor.w # "" /\ ctor.n = 0) => (ctor.exc # "" /\ docs[ctor.w] = NoDoc)

\* The instances wrappers are seeded from: pages of up to two posts, and one
\* instance of each version class.
Seeds ==
    {BlogPageConfig("c", ps) :
        ps \in {<<>>} \cup {<<x>> : x \in {Post("p", "n"), Post("q", "m")}}
                 \cup ({Post("p", "n"), Post("q", "m")} \X {Post("p", "n"), Post("q", "m")})}
      \cup {Instance(cls) : cls \in Versions}

\* w = MutantModel[type(m)](state=m)
NextSeed ==
    \E w \in {"B", "B1"}, client \in ClientIds, m \in Seeds :
        New(w, client, PyNone, <<>>, m, m.cls)

SpecSeed == InitNew /\ [][NextSeed]_vars

\* C12: the snapshot of a wrapper constructed with state=m validates and
\* equals m field for field, nested instances and sequences included.
C12_SeedRoundTrip ==
    [][\A w \in Wrappers, client \in ClientIds, m \in Seeds :
          New(w, client, PyNone, <<>>, m, m.cls) =>
              /\ HasSnapshot(docs'[w], m.cls)
              /\ snapshot(docs'[w], m.cls) = m]_vars

\* A wrapper seeded from a page of two different posts shows both, in order.
C12_Witness ==
    \E w \in Wrappers :
        /\ docs[w] # NoDoc /\ bound[w] = "BlogPageConfig"
        /\ HasSnapshot(docs[w], bound[w])
        /\ snapshot(docs[w], bound[w]) = BlogPageConfig("c", <<Post("q", "m"), Post("p", "n")>>)

\* C13: outside a mutate() scope, whatever calls the scopes so far have made,
\* a fresh wrapper of the same bound type built with update=w.update reads the
\* same root as w and has the same snapshot (or fails validation as w does).
C13_BlobHoldsFullState ==
    \A w \in Wrappers :
        (docs[w] # NoDoc /\ pc[w] = "out") =>
            /\ root_to_py(Reconstructed(w)) = root_to_py(docs[w])
            /\ HasSnapshot(Reconstructed(w), bound[w]) = HasSnapshot(docs[w], bound[w])
            /\ HasSnapshot(docs[w], bound[w]) =>
                 snapshot(Reconstructed(w), bound[w]) = snapshot(docs[w], bound[w])

\* A scope that removed an element and wrote a new one has closed.
C13_Witness ==
    \E w \in Wrappers :
        /\ pc[w] = "out" /\ exc = "" /\ nops = MaxOps
        /\ \E i \in DOMAIN docs[w].items : docs[w].items[i].del
        /\ HasSnapshot(docs[w], bound[w])
        /\ \E i \in DOMAIN snapshot(docs[w], bound[w]).d["posts"].l :
             snapshot(docs[w], bound[w]).d["posts"].l[i].d["title"] = PyStr("a")

-----------------------------------------------------------------------------
(* More claims about migrate *)

\* The registry of the tests: contiguous versions, version k at position k - 1.
TestRegistry == registry = <<"ModelV1", "ModelV2", "ModelV3", "ModelV4", "ModelV5">>

\* The fields every version from position i to position j declares.
Preserved(i, j) ==
    {k \in DOMAIN ModelFields(registry[i + 1]) :
        \A q \in Min(i, j) .. (IF i < j THEN j ELSE i) :
            k \in DOMAIN ModelFields(registry[q + 1])}

\* B, seeded at version i, was migrated to version j; the wrapper B2 that call
\* returned (it held the items of B and no other), stored at the version of its
\* type, has been migrated back to the type of B and the call has returned.
WentThereAndBack ==
    /\ TestRegistry
    /\ mig.returned /\ mig.instance = "B2" /\ mig.result = "B2"
    /\ mig.to = bound["B"]
    /\ StoredVersion(mig.before) = mig.from_version_index + 1
    /\ Ids(mig.before) = Ids(docs["B"])

\* C14: with the registry of the tests, after migrating from version i to
\* version j and the returned wrapper back to version i, the snapshot has the
\* schema_version of the original instance and its value of every field that
\* all the versions between i and j declare.
C14_ThereAndBack ==
    WentThereAndBack =>
        /\ HasSnapshot(docs["B2"], bound["B"])
        /\ \A k \in Preserved(mig.to_version_index, mig.from_version_index) :
             snapshot(docs["B2"], bound["B"]).d[k] = Instance(bound["B"]).d[k]

\* ModelV1 -> ModelV3 -> ModelV1 or further: field is not restored, some_field is.
C14_Witness ==
    /\ WentThereAndBack
    /\ mig.from_version_index - mig.to_version_index >= 2
    /\ Len(calls) >= 2
    /\ snapshot(docs["B2"], bound["B"]).d["some_field"] = PyStr("world")

\* C15: the step that ends a successful migrate binds a wrapper with a Doc of
\* its own to the target type, holding what the source Document holds after
\* its transaction was closed; the source Document is left as it is, and the
\* bound type of a wrapper changes at no other step of a migrate call.
C15_ResultIsNewWrapper ==
    [][/\ (mig.pc = "result" /\ mig'.returned) =>
            /\ bound'[mig'.result] = mig.to
            /\ ~txn[mig.instance]
            /\ docs'[mig'.result].client # docs[mig.instance].client
            /\ get_update(docs'[mig'.result]) = get_update(docs[mig.instance])
            /\ mig'.result # mig.instance =>
                 /\ docs'[mig.instance] = docs[mig.instance]
                 /\ bound'[mig.instance] = bound[mig.instance]
       /\ (mig.pc # "result" /\ (mig.pc # "idle" \/ mig'.pc # "idle")) =>
            bound' = bound
      ]_vars

\* ModelV1 was migrated to another type: the source is still bound to ModelV1.
C15_Witness ==
    /\ mig.returned /\ mig.instance = "B" /\ mig.result = "B2"
    /\ bound["B"] = "ModelV1" /\ bound["B2"] = "ModelV4"
    /\ root_to_py(docs["B2"]) = root_to_py(docs["B"])
    /\ StoredVersion(docs["B"]) = 4

\* The source's bound type or the target type is not listed in the registry.
Listed(cls) == \E q \in DOMAIN registry : registry[q] = cls

NotRegistered(instance, to) == ~Listed(bound[instance]) \/ ~Listed(to)

\* C16: a migrate call whose source type or target type is not in the registry
\* ends at once with the error of the failed lookup (the ValueError of
\* list.index): no scope is opened, no hook is called, the Documents and the
\* bound types are as before, and no wrapper is returned.
C16_UnregisteredFailsFirst ==
    [][(mig.pc = "idle" /\ mig' # mig /\ NotRegistered(mig'.instance, mig'.to)) =>
          /\ exc' = "ValueError"
          /\ mig'.pc = "idle" /\ ~mig'.returned
          /\ calls' = <<>>
          /\ txn' = txn /\ pc' = pc /\ state' = state
          /\ docs' = docs /\ bound' = bound
      ]_vars

\* Both cases: the target is not listed; the source is not listed.
C16_Witness ==
    /\ mig.pc = "idle" /\ mig.instance = "B" /\ ~mig.returned
    /\ exc = "ValueError"
    /\ ~Listed(bound["B"])
    /\ Listed(mig.to)

C16_WitnessTarget ==
    /\ mig.pc = "idle" /\ mig.instance = "B" /\ ~mig.returned
    /\ exc = "ValueError"
    /\ Listed(bound["B"])
    /\ ~Listed(mig.to)

\* A migrate call to the type its source is bound to got past the lookups.
SameTypeCall ==
    /\ mig.instance # "" /\ Listed(mig.to)
    /\ mig.from_version_index = mig.to_version_index
    /\ mig.pc # "idle" \/ mig.returned

\* C17: migrating a wrapper to the type it is bound to: the step range is
\* empty, no hook is called, nothing is written (schema_version included), and
\* the wrapper returned is one with a Doc of its own, bound to the same type,
\* whose snapshot is the source's.
C17_SameTypeIsNoOp ==
    SameTypeCall =>
        /\ mig.todo = <<>> /\ calls = <<>>
        /\ mig.pc # "idle" =>
             /\ docs[mig.instance] = mig.before
             /\ bound[mig.instance] = mig.to
        /\ mig.returned =>
             /\ bound[mig.result] = mig.to
             /\ docs[mig.result].client # mig.before.client
             /\ StoredVersion(docs[mig.result]) = StoredVersion(mig.before)
             /\ root_to_py(docs[mig.result]) = root_to_py(mig.before)
             /\ HasSnapshot(docs[mig.result], mig.to) = HasSnapshot(mig.before, mig.to)
             /\ HasSnapshot(mig.before, mig.to) =>
                  snapshot(docs[mig.result], mig.to) = snapshot(mig.before, mig.to)

C17_Witness ==
    /\ SameTypeCall /\ mig.returned
    /\ mig.instance = "B" /\ mig.result = "B2"
    /\ bound["B"] = "ModelV3" /\ bound["B2"] = "ModelV3"
    /\ HasSnapshot(docs["B2"], "ModelV3")
    /\ snapshot(docs["B2"], "ModelV3") = Instance("ModelV3")

-----------------------------------------------------------------------------
(* Claims about the calls on a proxied sequence *)

\* The indices a sequence of length n has: [-n, n).
InRange(i, n) == -n <= i /\ i < n

\* C18: pop, del and item assignment on a proxied sequence with an index
\* outside [-len, len) end with IndexError and change neither the shadow nor
\* the Document.
C18_OutOfRangeChangesNothing ==
    [][\A p \in ProxiesOf("B", "ArrayProxy") : \A i \in Indices("B", p) :
         ( /\ ~InRange(i, Len(GetAt(state["B"], p).l))
           /\ \/ ArrayPop("B", p, i)
              \/ ArrayDelItem("B", p, i)
              \/ \E item \in NewPosts : ArraySetItem("B", p, i, item) ) =>
             /\ exc' = "IndexError"
             /\ state' = state
             /\ docs' = docs
      ]_vars

\* An index out of range was used on a sequence that has elements.
C18_Witness ==
    /\ pc["B"] = "body" /\ exc = "IndexError"
    /\ Len(state["B"].d["posts"].l) = 2
    /\ Len(root_to_py(docs["B"]).d["posts"].l) = 2
    /\ nops = 1

\* C19: pop(i) with i in range removes the element at i from the shadow and
\* from the Document array, and hands the removed element back to the caller.
C19_PopReturnsElement ==
    [][\A p \in ProxiesOf("B", "ArrayProxy") : \A i \in Indices("B", p) :
         ( /\ InRange(i, Len(GetAt(state["B"], p).l))
           /\ ArrayLen(docs["B"], GetAt(state["B"], p).root) = Len(GetAt(state["B"], p).l)
           /\ ArrayPop("B", p, i) ) =>
             LET self == GetAt(state["B"], p)
                 k == Norm(i, Len(self.l))
             IN /\ exc' = ""
                /\ GetAt(state'["B"], p).l = RemoveAt(self.l, k + 1)
                /\ to_py(docs'["B"], self.root, "Array").l =
                      RemoveAt(to_py(docs["B"], self.root, "Array").l, k + 1)
                /\ ArrayProxy_pop(self, docs["B"], i).ret = self.l[k + 1]
      ]_vars

\* What C19 claims apart from the value handed back: the element leaves the
\* shadow and the Document array.
PopRemovesFromBoth ==
    [][\A p \in ProxiesOf("B", "ArrayProxy") : \A i \in Indices("B", p) :
         ( /\ InRange(i, Len(GetAt(state["B"], p).l))
           /\ ArrayLen(docs["B"], GetAt(state["B"], p).root) = Len(GetAt(state["B"], p).l)
           /\ ArrayPop("B", p, i) ) =>
             LET self == GetAt(state["B"], p)
                 k == Norm(i, Len(self.l))
             IN /\ exc' = ""
                /\ GetAt(state'["B"], p).l = RemoveAt(self.l, k + 1)
                /\ to_py(docs'["B"], self.root, "Array").l =
                      RemoveAt(to_py(docs["B"], self.root, "Array").l, k + 1)
      ]_vars

-----------------------------------------------------------------------------
(* JsonPathMutator: the path-query facade over the tree a mutate() scope yields *)

Prefixed(step, ms) == [q \in DOMAIN ms |-> <<step>> \o ms[q]]

\* jsonpath_expr.find(self.state): the places the path matches, in order. A
\* path is a sequence of steps: a field [k |-> name], an at [i |-> n]
\* (1-based, as the places of a tree are) or the wildcard [star |-> TRUE].
\* A field matches on a dict that has the key, an at or the wildcard on a
\* list; a model instance that is not a dict matches nothing below it.
RECURSIVE find(_, _)
RECURSIVE FindEach(_, _, _)
FindEach(o, i, rest) ==
    IF i > Len(o.l) THEN <<>>
    ELSE Prefixed([i |-> i], find(o.l[i], rest)) \o FindEach(o, i + 1, rest)

find(o, path) ==
    IF path = <<>> THEN << <<>> >>
    ELSE IF "k" \in DOMAIN Head(path)
         THEN IF IsMapping(o) /\ Head(path).k \in DOMAIN o.d
              THEN Prefixed(Head(path), find(o.d[Head(path).k], Tail(path)))
              ELSE <<>>
    ELSE IF ~IsSequence(o) THEN <<>>
    ELSE IF "i" \in DOMAIN Head(path)
         THEN IF Head(path).i <= Len(o.l)
              THEN Prefixed(Head(path), find(o.l[Head(path).i], Tail(path)))
              ELSE <<>>
    ELSE FindEach(o, 1, Tail(path))

\* match.context (the place of the parent) and match.path (the last step)
Front(m) == SubSeq(m, 1, Len(m) - 1)
Last(m) == m[Len(m)]

\* The calls of the facade on a list that is not a proxy (a value that was
\* assigned or appended as it was): the list alone changes.
list_setitem(self, doc, key, value) ==
    IF ~InRange(key, Len(self.l)) THEN Raised(self, doc, "IndexError")
    ELSE Done([self EXCEPT !.l[Norm(key, Len(self.l)) + 1] = value], doc)

list_delitem(self, doc, key) ==
    IF ~InRange(key, Len(self.l)) THEN Raised(self, doc, "IndexError")
    ELSE Done([self EXCEPT !.l = RemoveAt(@, Norm(key, Len(self.l)) + 1)], doc)

list_insert(self, doc, at, object) ==
    LET n == Len(self.l)
        k == IF Norm(at, n) < 0 THEN 0
             ELSE IF Norm(at, n) > n THEN n ELSE Norm(at, n)
    IN Done([self EXCEPT !.l = InsertAt(@, k + 1, object)], doc)

\* The tree and the Doc after a call on the container at place p ended as q.
OnParent(r, p, q) ==
    [self |-> IF GetAt(r.self, p).t \in {"ModelProxy", "ArrayProxy"}
              THEN Rebind(r.self, GetAt(r.self, p), q.self)
              ELSE SetAt(r.self, p, q.self),
     doc |-> q.doc, exc |-> q.exc]

\* The body of the loop of set: parent[key] = value or setattr(parent, key, value)
SetMatch(r, m, value) ==
    IF m = <<>> THEN Raised(r.self, r.doc, "TypeError")
    ELSE LET parent == GetAt(r.self, Front(m)) IN
      CASE parent.t = "ArrayProxy" ->
             OnParent(r, Front(m), ArrayProxy_setitem(parent, r.doc, Last(m).i - 1, value))
        [] parent.t = "list" ->
             OnParent(r, Front(m), list_setitem(parent, r.doc, Last(m).i - 1, value))
        [] parent.t = "ModelProxy" ->
             OnParent(r, Front(m), ModelProxy_setattr(parent, r.doc, Last(m).k, value))
        [] parent.t = "dict" -> Raised(r.self, r.doc, "AttributeError")
        [] OTHER -> Raised(r.self, r.doc, "TypeError")

\* The body of the loop of delete: del parent[key] or delattr(parent, key)
DeleteMatch(r, m) ==
    IF m = <<>> THEN Raised(r.self, r.doc, "TypeError")
    ELSE LET parent == GetAt(r.self, Front(m)) IN
      CASE parent.t = "ArrayProxy" ->
             OnParent(r, Front(m), ArrayProxy_delitem(parent, r.doc, Last(m).i - 1))
        [] parent.t = "list" ->
             OnParent(r, Front(m), list_delitem(parent, r.doc, Last(m).i - 1))
        [] parent.t = "ModelProxy" ->
             OnParent(r, Front(m), ModelProxy_delattr(parent, r.doc, Last(m).k))
        [] parent.t = "dict" -> Raised(r.self, r.doc, "AttributeError")
        [] OTHER -> Raised(r.self, r.doc, "TypeError")

\* The body of the loops of append, insert and pop: the call on match.value
ListMatch(r, m, op, a) ==
    LET parent == GetAt(r.self, m) IN
      CASE parent.t = "ArrayProxy" ->
             OnParent(r, m,
                 CASE op = "append" -> ArrayProxy_append(parent, r.doc, a.value)
                   [] op = "insert" -> ArrayProxy_insert(parent, r.doc, a.index, a.value)
                   [] op = "pop" -> ArrayProxy_pop(parent, r.doc, a.index))
        [] parent.t = "list" ->
             OnParent(r, m,
                 CASE op = "append" -> list_insert(parent, r.doc, Len(parent.l), a.value)
                   [] op = "insert" -> list_insert(parent, r.doc, a.index, a.value)
                   [] op = "pop" -> list_delitem(parent, r.doc, a.index))
        [] OTHER -> Raised(r.self, r.doc, "TypeError")

\* for match in matches: the loop ends at the first exception
RECURSIVE ForEach(_, _, _, _)
ForEach(r, matches, op, a) ==
    IF matches = <<>> \/ r.exc # "" THEN r
    ELSE ForEach(CASE op = "set" -> SetMatch(r, Head(matches), a.value)
                   [] op = "delete" -> DeleteMatch(r, Head(matches))
                   [] OTHER -> ListMatch(r, Head(matches), op, a),
                 Tail(matches), op, a)

\* (mutant) set on a path that matches nothing creates the field on the root
JsonPathMutator_creating(state_, doc, op, path, a) ==
    IF find(state_, path) = <<>>
    THEN IF op = "set" /\ Len(path) = 1 /\ "k" \in DOMAIN path[1]
         THEN ModelProxy_setattr(state_, doc, path[1].k, a.value)
         ELSE Raised(state_, doc, "ValueError")
    ELSE ForEach(Done(state_, doc), find(state_, path), op, a)

\* JsonPathMutator.set / append / insert / pop / delete on the tree state_
JsonPathMutator(state_, doc, op, path, a) ==
    IF find(state_, path) = <<>> THEN Raised(state_, doc, "ValueError")
    ELSE ForEach(Done(state_, doc), find(state_, path), op, a)

JsonPathMutator_set(state_, doc, path, value) ==
    JsonPathMutator(state_, doc, "set", path, [index |-> 0, value |-> value])
JsonPathMutator_append(state_, doc, path, value) ==
    JsonPathMutator(state_, doc, "append", path, [index |-> 0, value |-> value])
JsonPathMutator_insert(state_, doc, path, at, value) ==
    JsonPathMutator(state_, doc, "insert", path, [index |-> at, value |-> value])
JsonPathMutator_pop(state_, doc, path, at) ==
    JsonPathMutator(state_, doc, "pop", path, [index |-> at, value |-> PyNone])
JsonPathMutator_delete(state_, doc, path) ==
    JsonPathMutator(state_, doc, "delete", path, [index |-> 0, value |-> PyNone])

\* The facade call on w's tree ended as r.
Faced(w, r) ==
    /\ state' = [state EXCEPT ![w] = r.self]
    /\ docs' = [docs EXCEPT ![w] = r.doc]
    /\ exc' = r.exc
    /\ nops' = nops + 1
    /\ UNCHANGED <<bound, txn, pc, ctor, registry, calls, mig>>

\* No list the path matches is at the bound MaxLen.
Room(w, path) ==
    \A q \in DOMAIN find(state[w], path) :
        IsSequence(GetAt(state[w], find(state[w], path)[q])) =>
            Len(GetAt(state[w], find(state[w], path)[q]).l) < MaxLen

PathSet(w, path, value) ==
    /\ InBody(w)
    /\ Faced(w, JsonPathMutator_set(state[w], docs[w], path, value))

PathAppend(w, path, value) ==
    /\ InBody(w) /\ Room(w, path)
    /\ Faced(w, JsonPathMutator_append(state[w], docs[w], path, value))

PathInsert(w, path, at, value) ==
    /\ InBody(w) /\ Room(w, path)
    /\ Faced(w, JsonPathMutator_insert(state[w], docs[w], path, at, value))

PathPop(w, path, at) ==
    /\ InBody(w)
    /\ Faced(w, JsonPathMutator_pop(state[w], docs[w], path, at))

PathDelete(w, path) ==
    /\ InBody(w)
    /\ Faced(w, JsonPathMutator_delete(state[w], docs[w], path))

\* The paths of the tests over BlogPageConfig, one with the wildcard and one
\* with a field no model has.
Fld(name) == [k |-> name]
Idx(n) == [i |-> n + 1]
Paths ==
    {<<Fld("collection")>>, <<Fld("posts")>>,
     <<Fld("posts"), Idx(0)>>, <<Fld("posts"), [star |-> TRUE]>>,
     <<Fld("posts"), Idx(0), Fld("title")>>,
     <<Fld("posts"), [star |-> TRUE], Fld("title")>>,
     <<Fld("posts"), Idx(0), Fld("author")>>,
     <<Fld("posts"), Idx(0), Fld("author"), Fld("name")>>,
     <<Fld("nonexistent")>>}

\* The values set at a path: of the type the model gives the place.
PathValues(path) ==
    IF "k" \notin DOMAIN Last(path) THEN NewPosts
    ELSE CASE Last(path).k = "posts" -> {PyList(<<x>>) : x \in NewPosts}
           [] Last(path).k = "author" -> {Author(x) : x \in Strs}
           [] OTHER -> {PyStr(x) : x \in Strs}

PathIndexes == {-1, 0, 1}

\* One wrapper whose tree is edited through the facade in mutate() scopes
NextPath ==
    \/ Enter("B")
    \/ \E path \in Paths :
         \/ \E value \in PathValues(path) : PathSet("B", path, value)
         \/ \E value \in NewPosts : PathAppend("B", path, value)
         \/ \E at \in PathIndexes, value \in NewPosts :
              PathInsert("B", path, at, value)
         \/ \E at \in PathIndexes : PathPop("B", path, at)
         \/ PathDelete("B", path)
    \/ Exit("B")

SpecPath == Init /\ [][NextPath]_vars

\* A scope in which the facade was used has closed without an exception.
FacadeScopeClosed == pc["B"] = "out" /\ exc = "" /\ state["B"] # PyNone /\ nops > 0

\* C20: whatever the facade did to the tree of an open scope is in the
\* Document: when the scope has closed, the Document's root content is the
\* shadow the facade left, and the snapshot, where there is one, shows it.
C20_FacadeMirrored ==
    FacadeScopeClosed =>
        /\ root_to_py(docs["B"]) = Plain(state["B"])
        /\ HasSnapshot(docs["B"], bound["B"]) =>
             Plain(snapshot(docs["B"], bound["B"])) = Plain(state["B"])

\* A facade call with the path is made on w's tree.
FacadeCall(w, path) ==
    \/ \E value \in PathValues(path) : PathSet(w, path, value)
    \/ \E value \in NewPosts : PathAppend(w, path, value)
    \/ \E at \in PathIndexes, value \in NewPosts : PathInsert(w, path, at, value)
    \/ \E at \in PathIndexes : PathPop(w, path, at)
    \/ PathDelete(w, path)

\* C21: a facade call whose path matches nothing in the shadow ends with
\* ValueError and changes neither the shadow nor the Document; set does not
\* create the field.
C21_NoMatchChangesNothing ==
    [][\A path \in Paths :
         (find(state["B"], path) = <<>> /\ FacadeCall("B", path)) =>
             /\ exc' = "ValueError"
             /\ state' = state
             /\ docs' = docs
      ]_vars

\* A call with a path that matched nothing was made on a tree that has a post:
\* the path of the field no model has.
C21_Witness ==
    /\ pc["B"] = "body" /\ exc = "ValueError" /\ nops = 1
    /\ Len(state["B"].d["posts"].l) = 1
    /\ "nonexistent" \notin DOMAIN state["B"].d
    /\ "nonexistent" \notin DOMAIN root_to_py(docs["B"]).d

StarPosts == <<Fld("posts"), [star |-> TRUE]>>
StarTitles == <<Fld("posts"), [star |-> TRUE], Fld("title")>>

\* The path matches k >= 2 places of w's tree.
ManyMatches(w, path) == Len(find(state[w], path)) >= 2

\* What C22 claims for set: with k >= 2 matches, the value is at every matched
\* place of the shadow and of the Document after the call.
SetAppliesToEveryMatch ==
    [][\A value \in PathValues(StarTitles) :
         (ManyMatches("B", StarTitles) /\ PathSet("B", StarTitles, value)) =>
             /\ exc' = ""
             /\ \A q \in DOMAIN state["B"].d["posts"].l :
                  /\ state'["B"].d["posts"].l[q].d["title"] = value
                  /\ root_to_py(docs'["B"]).d["posts"].l[q].d["title"] = value
      ]_vars

\* C22: an operation whose path matches k >= 2 places is applied to each of
\* them; delete of k >= 2 matched elements of one sequence ends without an
\* exception and leaves none of them in the shadow or in the Document.
C22_AppliedToEveryMatch ==
    [][/\ \A value \in PathValues(StarTitles) :
            (ManyMatches("B", StarTitles) /\ PathSet("B", StarTitles, value)) =>
                /\ exc' = ""
                /\ \A q \in DOMAIN state["B"].d["posts"].l :
                     /\ state'["B"].d["posts"].l[q].d["title"] = value
                     /\ root_to_py(docs'["B"]).d["posts"].l[q].d["title"] = value
       /\ (ManyMatches("B", StarPosts) /\ PathDelete("B", StarPosts)) =>
            /\ exc' = ""
            /\ state'["B"].d["posts"].l = <<>>
            /\ root_to_py(docs'["B"]).d["posts"].l = <<>>
      ]_vars

-----------------------------------------------------------------------------
(* Writes that reach a value through the tree: the proxies, and the values
   that were stored in the tree as they were given *)

\* Attribute assignment on a model instance that is not a proxy (pydantic's
\* own __setattr__): the instance alone changes.
BaseModel_setattr(self, doc, key, value) ==
    Done([self EXCEPT !.d = Put(@, key, value)], doc)

\* state.<...>.key = value where state.<...> is a model instance that was
\* assigned, appended or inserted earlier
RawSetAttr(w, p, key, value) ==
    /\ InBody(w)
    /\ p \in ProxiesOf(w, "BaseModel")
    /\ Faced(w, OnParent(Done(state[w], docs[w]), p,
                         BaseModel_setattr(GetAt(state[w], p), docs[w], key, value)))

\* state.<...>.append(item) where state.<...> is a list that was assigned earlier
RawAppend(w, p, item) ==
    /\ InBody(w)
    /\ p \in ProxiesOf(w, "list")
    /\ Len(GetAt(state[w], p).l) < MaxLen
    /\ Faced(w, OnParent(Done(state[w], docs[w]), p,
                         list_insert(GetAt(state[w], p), docs[w],
                                     Len(GetAt(state[w], p).l), item)))

RawWrites(w) ==
    \/ \E p \in ProxiesOf(w, "BaseModel") :
         \E key \in DOMAIN ModelFields(GetAt(state[w], p).cls) :
           \E value \in ValuesFor(ModelFields(GetAt(state[w], p).cls)[key]) :
             RawSetAttr(w, p, key, value)
    \/ \E p \in ProxiesOf(w, "list"), item \in NewPosts : RawAppend(w, p, item)

NextTree ==
    \/ Next
    \/ RawWrites("B")

SpecTree == Init /\ [][NextTree]_vars

\* The Document's root content is the shadow.
Mirrored(w) == root_to_py(docs[w]) = Plain(state[w])

\* C23: inside a mutate() scope, a write that navigates to a value added
\* earlier in the scope (a model instance or a list that was assigned, appended
\* or inserted) and changes a field or an element of it keeps the Document's
\* root content equal to the shadow.
C23_NavigatedWritesMirrored ==
    [][(pc["B"] = "body" /\ Mirrored("B") /\ RawWrites("B")) => Mirrored("B")']_vars

-----------------------------------------------------------------------------
(* Claims about hooks and scopes *)

\* The field a hook of the test models removes with del state.<field>, "" if
\* it removes none.
RemovedBy(hook) ==
    CASE hook = <<"ModelV2", "up">> -> "field"
      [] hook = <<"ModelV3", "down">> -> "some_new_field"
      [] hook = <<"ModelV4", "down">> -> "another_new_field"
      [] hook = <<"ModelV5", "down">> -> "yet_another_field"
      [] OTHER -> ""

\* C24: a field a hook removed with del state.<field> is not in the Document
\* of the wrapper migrate returns.
C24_HookRemovalReachesDocument ==
    mig.returned =>
        \A q \in DOMAIN calls :
            RemovedBy(calls[q]) # "" =>
                RemovedBy(calls[q]) \notin DOMAIN root_to_py(docs[mig.result]).d

\* w's scope has exited and the caller still holds the tree it yielded.
Stale(w) == pc[w] = "out" /\ ~txn[w] /\ state[w] # PyNone /\ nops < MaxOps /\ mig.pc = "idle"

\* state.<...>.key = value after the with statement has ended: the proxy still
\* holds its Map, and a Map written outside a transaction opens one of its own
\* (as self._doc[ROOT_KEY] = ... in set_state does).
StaleSetAttr(w, p, key, value) ==
    /\ Stale(w)
    /\ p \in ProxiesOf(w, "ModelProxy")
    /\ Apply(w, p, ModelProxy_setattr(GetAt(state[w], p), docs[w], key, value))

\* state.<...>.append(item) after the with statement has ended
StaleAppend(w, p, item) ==
    /\ Stale(w)
    /\ p \in ProxiesOf(w, "ArrayProxy")
    /\ Len(GetAt(state[w], p).l) < MaxLen
    /\ Apply(w, p, ArrayProxy_append(GetAt(state[w], p), docs[w], item))

\* state.<...>.pop(index) after the with statement has ended
StalePop(w, p, at) ==
    /\ Stale(w)
    /\ p \in ProxiesOf(w, "ArrayProxy")
    /\ Apply(w, p, ArrayProxy_pop(GetAt(state[w], p), docs[w], at))

StaleWrites(w) ==
    \/ \E p \in ProxiesOf(w, "ModelProxy") :
         \E key \in DOMAIN ModelFields(ClassAt(bound[w], p)) :
           \E value \in ValuesFor(ModelFields(ClassAt(bound[w], p))[key]) :
             StaleSetAttr(w, p, key, value)
    \/ \E p \in ProxiesOf(w, "ArrayProxy") :
         \/ \E item \in NewPosts : StaleAppend(w, p, item)
         \/ \E at \in Indices(w, p) : StalePop(w, p, at)

\* One wrapper, edited inside mutate() scopes and through the proxies the
\* caller kept from a scope that has exited
NextStale ==
    \/ Next
    \/ StaleWrites("B")

SpecStale == Init /\ [][NextStale]_vars

\* C25: a step made while no mutate() scope of the wrapper is open leaves the
\* wrapper's Document as it is.
C25_NoWriteOutsideScope ==
    [][(pc["B"] = "out" /\ pc'["B"] = "out") => docs'["B"] = docs["B"]]_vars

-----------------------------------------------------------------------------
(* A wrapper whose Document was written under another type: B is seeded from
   an instance, B1 is bound to a type of its own and built from the blob of B *)

DefaultSeeds ==
    {BaseModel("CollectionOnly", [k \in {"collection"} |-> PyStr("c")]),
     BlogPageConfig("c", <<>>), BlogPageConfig("c", <<Post("p", "n")>>)}

InitDefault ==
    /\ \E st \in DefaultSeeds :
         /\ docs = [NoWrapper EXCEPT !["B"] = MutantModel_init(1, PyNone, <<>>, st).doc]
         /\ bound = [w \in Wrappers |-> IF w = "B" THEN st.cls ELSE "BlogPageConfig"]
    /\ txn = [w \in Wrappers |-> FALSE]
    /\ pc = [w \in Wrappers |-> "out"]
    /\ state = [w \in Wrappers |-> PyNone]
    /\ exc = ""
    /\ ctor = NoCtor
    /\ registry = <<>>
    /\ calls = <<>>
    /\ mig = NoMig
    /\ nops = 0

\* The types B1 is bound to: the one that fits every seed, and one whose
\* required fields no seed has.
Readers == {"BlogPageConfig", "Post"}

NextDefault ==
    \/ \E client \in ClientIds, cls \in Readers :
         New("B1", client, update(docs["B"]), <<>>, PyNone, cls)
    \/ \E w \in {"B", "B1"} :
         \/ Enter(w)
         \/ \E key \in DOMAIN ModelFields(bound[w]) :
              \E value \in ValuesFor(ModelFields(bound[w])[key]) :
                SetAttr(w, <<>>, key, value)
         \/ Exit(w)

SpecDefault == InitDefault /\ [][NextDefault]_vars

\* C26: whenever the Document's root content validates against the bound type
\* (snapshot succeeds), entering mutate() succeeds and yields the tree of the
\* snapshot, fields filled from a model default included.
C26_EnterSucceedsWhenValid ==
    [][\A w \in {"B", "B1"} :
         (Enter(w) /\ HasSnapshot(docs[w], bound[w])) =>
             /\ exc' = ""
             /\ pc'[w] = "body" /\ txn'[w]
             /\ Plain(state'[w]) = Plain(snapshot(docs[w], bound[w]))
      ]_vars

\* What C26 claims where the Document has an entry for every field of the
\* bound type: entering mutate() yields the tree of the snapshot.
EnterSucceedsWhenComplete ==
    [][\A w \in {"B", "B1"} :
         ( /\ Enter(w) /\ HasSnapshot(docs[w], bound[w])
           /\ DOMAIN ModelFields(bound[w]) \subseteq DOMAIN root_to_py(docs[w]).d ) =>
             /\ exc' = ""
             /\ pc'[w] = "body" /\ txn'[w]
             /\ Plain(state'[w]) = Plain(snapshot(docs[w], bound[w]))
      ]_vars

\* C27: when the Document's content does not validate against the bound type,
\* entering mutate() ends with the validation error: no transaction is open
\* afterwards, the Document is as before and the body does not run.
C27_InvalidEnterFailsFirst ==
    [][\A w \in {"B", "B1"} :
         (Enter(w) /\ ~HasSnapshot(docs[w], bound[w])) =>
             /\ exc' = "ValidationError"
             /\ txn' = txn /\ ~txn'[w]
             /\ docs' = docs
             /\ pc'[w] = "out" /\ state' = state
      ]_vars

\* mutate() was tried on a wrapper bound to Post whose Document a
\* BlogPageConfig wrote.
C27_Witness ==
    /\ exc = "ValidationError"
    /\ docs["B1"] # NoDoc /\ bound["B1"] = "Post"
    /\ ~HasSnapshot(docs["B1"], bound["B1"])
    /\ pc["B1"] = "out" /\ ~txn["B1"]

-----------------------------------------------------------------------------
(* More claims about the calls on a proxied sequence *)

\* The Document array a proxied sequence is bound to, as a plain list.
ArrayOf(doc, self) == to_py(doc, self.root, "Array").l

\* The items an extend call is given: the list, the items the iterator
\* yields, or the elements of the sequence itself.
Given(self, items, how) == IF how = "self" THEN self.l ELSE items

\* The shadow and the Document array of the proxy at place p hold the same.
InStep(w, p) ==
    Plain(PyList(GetAt(state[w], p).l)).l = ArrayOf(docs[w], GetAt(state[w], p))

\* After the step, the shadow and the Document array at place p are what they
\* were followed by the items.
Extended(w, p, items) ==
    /\ exc' = ""
    /\ GetAt(state'[w], p).l = GetAt(state[w], p).l \o items
    /\ ArrayOf(docs'[w], GetAt(state[w], p)) =
          ArrayOf(docs[w], GetAt(state[w], p)) \o Plain(PyList(items)).l

\* C29: extend(items) leaves the shadow and the Document array with the
\* previous content followed by the items, whatever iterable items is: a
\* list, an iterator, the proxied sequence itself.
C29_ExtendAppendsEach ==
    [][\A p \in ProxiesOf("B", "ArrayProxy") :
         \A items \in {<<>>} \cup {<<x>> : x \in NewPosts} :
           \A how \in {"list", "iterator", "self"} :
             (InStep("B", p) /\ ArrayExtend("B", p, items, how)) =>
                 Extended("B", p, Given(GetAt(state["B"], p), items, how))
      ]_vars

\* What C29 claims for a list argument.
ExtendWithListAppendsEach ==
    [][\A p \in ProxiesOf("B", "ArrayProxy") :
         \A items \in {<<x>> : x \in NewPosts} :
             (InStep("B", p) /\ ArrayExtend("B", p, items, "list")) =>
                 Extended("B", p, items)
      ]_vars

\* After the step, the shadow and the Document array at place p are what they
\* were with the item at position at.
Inserted(w, p, at, object) ==
    /\ exc' = ""
    /\ GetAt(state'[w], p).l = InsertAt(GetAt(state[w], p).l, at + 1, object)
    /\ ArrayOf(docs'[w], GetAt(state[w], p)) =
          InsertAt(ArrayOf(docs[w], GetAt(state[w], p)), at + 1, Plain(object))

\* C30: insert(i, item) with 0 <= i <= len places the item at position i in
\* the shadow and in the Document array; with any other index it fails with
\* an index error and leaves the shadow and the Document array as they were.
C30_InsertOrRefuse ==
    [][\A p \in ProxiesOf("B", "ArrayProxy") :
         \A i \in Indices("B", p) : \A item \in NewPosts :
           (InStep("B", p) /\ ArrayInsertAt("B", p, i, item)) =>
               IF 0 <= i /\ i <= Len(GetAt(state["B"], p).l)
               THEN Inserted("B", p, i, item)
               ELSE exc' = "IndexError" /\ state' = state /\ docs' = docs
      ]_vars

\* What C30 claims for an index in 0 .. len.
InsertInRangePlaces ==
    [][\A p \in ProxiesOf("B", "ArrayProxy") :
         \A i \in Indices("B", p) : \A item \in NewPosts :
           (/\ InStep("B", p)
            /\ 0 <= i /\ i <= Len(GetAt(state["B"], p).l)
            /\ ArrayInsertAt("B", p, i, item)) =>
               Inserted("B", p, i, item)
      ]_vars

\* An index outside 0 .. len leaves the Document array as it was.
InsertOutOfRangeKeepsDocument ==
    [][\A p \in ProxiesOf("B", "ArrayProxy") :
         \A i \in Indices("B", p) : \A item \in NewPosts :
           (/\ InStep("B", p)
            /\ (i < 0 \/ i > Len(GetAt(state["B"], p).l))
            /\ ArrayInsertAt("B", p, i, item)) =>
               exc' # "" /\ docs' = docs
      ]_vars

-----------------------------------------------------------------------------
(* Key assignment on a proxied mapping *)

\* dict.__setitem__: ModelProxy defines __setattr__ only, and Munch leaves
\* __setitem__ to dict, so state[key] = value stores the value in the mapping
\* and nowhere else.
ModelProxy_setitem(self, doc, key, value) ==
    Done([self EXCEPT !.d = Put(@, key, value)], doc)

\* state.<...>[key] = value
SetItem(w, p, key, value) ==
    /\ InBody(w)
    /\ p \in ProxiesOf(w, "ModelProxy")
    /\ Apply(w, p, ModelProxy_setitem(GetAt(state[w], p), docs[w], key, value))

KeyWrites(w) ==
    \E p \in ProxiesOf(w, "ModelProxy") :
      \E key \in DOMAIN ModelFields(ClassAt(bound[w], p)) :
        \E value \in ValuesFor(ModelFields(ClassAt(bound[w], p))[key]) :
          SetItem(w, p, key, value)

NextKey ==
    \/ Next
    \/ KeyWrites("B")

SpecKey == Init /\ [][NextKey]_vars

\* C31: state[key] = value on a proxied mapping sets the field in the shadow
\* and in the Document node the mapping is bound to, as attribute assignment
\* does, so the snapshot shows the value once the transaction has closed.
C31_SetItemWritesThrough ==
    [][\A p \in PathsOf(state["B"]) :
         BoundInPlace("B", p) =>
           \A key \in DOMAIN ModelFields(ClassAt(bound["B"], p)) :
             \A value \in ValuesFor(ModelFields(ClassAt(bound["B"], p))[key]) :
               SetItem("B", p, key, value) =>
                 /\ GetAt(state'["B"], p).d[key] = value
                 /\ root_to_py(docs'["B"])
                      = PlainPut(root_to_py(docs["B"]), p, key, Plain(value))
                 /\ HasSnapshot(docs'["B"], bound["B"])
                 /\ GetAt(Plain(snapshot(docs'["B"], bound["B"])), p).d[key]
                      = Plain(value)
      ]_vars

\* What C31 claims for the shadow.
SetItemSetsShadow ==
    [][\A p \in PathsOf(state["B"]) :
         BoundInPlace("B", p) =>
           \A key \in DOMAIN ModelFields(ClassAt(bound["B"], p)) :
             \A value \in ValuesFor(ModelFields(ClassAt(bound["B"], p))[key]) :
               SetItem("B", p, key, value) =>
                 /\ exc' = ""
                 /\ GetAt(state'["B"], p).d[key] = value
                 /\ docs' = docs
      ]_vars

=============================================================================
